---- MODULE Spec2Model ----
(***************************************************************************)
(* Model of monopoly_multimoney: the quant backtesting core                *)
(*   framework/backtester.py   Backtester (day loop, entries, exits)       *)
(*   framework/portfolio.py    Portfolio (ledger, snapshots)               *)
(*   strategies/entry/tplus1_entry.py, strategies/exit/advanced_exit.py    *)
(* and of the content pipeline rnotegen_v2:                                *)
(*   synchronizer.py           ContentSynchronizer (generate, batch)       *)
(*   agents/reviewer_agent.py  ReviewerAgent._calculate_total_score        *)
(*   publisher/rednote.py      RedNotePublisher.publish_article            *)
(*   mcp_server/server.py      MCPServer (tool calls, event stream)        *)
(* of the first-generation pipeline rnotegen:                              *)
(*   mcp/client.py             MCPClient (connect, call_tool, close)       *)
(*   core/writer_agent.py      WriterAgent.generate (tool-calling loop)    *)
(* and of the quant utilities:                                             *)
(*   util/market_data_handler.py  MarketDataHandler.get_stock_data         *)
(*   quant_system.py           QuantSystem.backtest                        *)
(*                                                                         *)
(* Money is exact rational arithmetic on integers: prices carry the scale  *)
(* SlipDen (the 10000.0 of _apply_slippage) and cash/pnl/commission carry  *)
(* the scale SlipDen * RateDen, commission_rate being rate_num / RateDen.  *)
(* Dates are calendar day numbers; day 0 of a run is a Monday.             *)
(***************************************************************************)
EXTENDS Integers, Sequences, FiniteSets, TLC

VARIABLES
    pc,               \* position of Backtester.__init__ / run
    cfg,              \* constructor and run arguments, data handler tables
    day,              \* index of dt in dates (run's for loop)
    market_data,      \* symbols with a bar at dt (keys of market_data)
    cash,             \* portfolio.cash
    positions,        \* portfolio.positions, in insertion order
    trades,           \* self.trades
    pending_entries,  \* self.pending_entries
    history,          \* portfolio.history
    issued,           \* MockCompositeStrategy.issued
    nextId,           \* number of entry signals emitted so far (signal identity)
    asked,            \* record of the last _process_entries call
    trail,            \* TrailingStopExit evaluated bar by bar on one position
    tplus,            \* one call of B1EntryTPlus1.generate
    adv,              \* AdvancedExit evaluated bar by bar on one position
    sync,             \* ContentSynchronizer.generate_content / batch_generate
    pub,              \* one call of RedNotePublisher.publish_article
    rev,              \* one call of ReviewerAgent._calculate_total_score
    srv,              \* MCPServer: requests, event queue, /events clients
    mcp,              \* MCPClient: connection, handshake, tool calls
    wr,               \* one call of the single-pass WriterAgent.generate
    mdh,              \* MarketDataHandler: cache, proxy variables, provider
    qs                \* one call of QuantSystem.backtest

vars == <<pc, cfg, day, market_data, cash, positions, trades, pending_entries,
          history, issued, nextId, asked, trail, tplus, adv, sync, pub, rev, srv,
          mcp, wr, mdh, qs>>

rnVars == <<sync, pub, rev, srv>>

appVars == <<mcp, wr, mdh, qs>>

btVars == <<pc, cfg, day, market_data, cash, positions, trades, pending_entries,
            history, issued, nextId, asked>>

-----------------------------------------------------------------------------
(* Bounds *)

NDays == 3          \* business days in [start_date, end_date]
MaxSignals == 2     \* entry signals an arbitrary strategy emits in one run
MaxBatch == 2       \* entry signals returned by one generate_entries call
MaxEvals == 6       \* bars fed to TrailingStopExit.evaluate
MaxBars == 4        \* rows of the frame given to B1EntryTPlus1.generate

-----------------------------------------------------------------------------
(* Representation *)

SlipDen == 10000    \* slippage_bp / 10000.0
RateDen == 100      \* commission_rate = rate_num / RateDen
MoneyScale == SlipDen * RateDen
NoDate == -1        \* None where a date is expected
NoPrice == -1       \* None where a price is expected

Symbols == <<"A", "B">>     \* data_handler.get_hs300_components()

Range(s) == {s[i] : i \in 1..Len(s)}
Max(a, b) == IF a >= b THEN a ELSE b

\* pd.date_range(start, end, freq='B'): business days, day 0 a Monday
DateOf(d) == d + 2 * (d \div 5)

\* symbols = get_hs300_components()[:universe_size]
Universe(c) == {Symbols[i] : i \in 1..c.universe_size}

\* data handler frames: is there a row for sym at the d-th business day
HasBar(c, sym, d) ==
    CASE c.data = "full"    -> TRUE
      [] c.data = "gapA"    -> ~(sym = "A" /\ d = 2)
      [] c.data = "holiday" -> d # 1

\* df.loc[dt, 'close'] / df.loc[dt, 'open'] (unscaled)
ClosePx(c, sym, d) ==
    CASE c.prices = "flat"   -> 1
      [] c.prices = "spread" -> IF sym = "A" THEN 1 ELSE 3

OpenPx(c, sym, d) ==
    CASE c.prices = "flat"   -> 1
      [] c.prices = "spread" -> IF sym = "A" THEN 1 ELSE 2

-----------------------------------------------------------------------------
(* Backtester helpers *)

\* Backtester.equal_weight_sizer: int((cash / max(1, slots)) // price)
equal_weight_sizer(cash_, remaining_slots, price) ==
    cash_ \div (Max(1, remaining_slots) * price * RateDen)

\* _apply_slippage with the sides exchanged
_apply_slippage_Flipped(c, raw_price, side) ==
    LET adj == raw_price * c.slippage_bp
    IN  raw_price * SlipDen + (IF side = "BUY" THEN -adj ELSE adj)

\* Backtester._apply_slippage, result on the price scale SlipDen
_apply_slippage(c, raw_price, side) ==
    LET adj == raw_price * c.slippage_bp
    IN  raw_price * SlipDen + (IF side = "BUY" THEN adj ELSE -adj)

\* Backtester._apply_commission on gross = price * shares, result on MoneyScale
_apply_commission(c, price, shares) == price * shares * c.rate_num

Gross(price, shares) == price * shares * RateDen

Holds(pos, sym) == \E i \in 1..Len(pos) : pos[i].symbol = sym

\* _execute_entry, lines 106-116: price, size and cost of the order
EntryRaw(c, sym, d, price_type) ==
    IF price_type = "open" THEN OpenPx(c, sym, d) ELSE ClosePx(c, sym, d)

EntryPrice(c, sym, d, price_type) ==
    _apply_slippage(c, EntryRaw(c, sym, d, price_type), "BUY")

EntryShares(c, st, sym, d, price_type) ==
    equal_weight_sizer(st.cash, st.slots, EntryPrice(c, sym, d, price_type))

EntryCost(c, st, sym, d, price_type) ==
    LET px == EntryPrice(c, sym, d, price_type)
        sh == EntryShares(c, st, sym, d, price_type)
    IN  Gross(px, sh) + _apply_commission(c, px, sh)

\* _execute_entry, lines 119-136: debit cash, add the position, log the BUY.
\* The trade keeps the raw price and the signal it fills for the properties.
EntryFill(c, st, d, sym, sig, price_type, slots_after) ==
    LET px == EntryPrice(c, sym, d, price_type)
        sh == EntryShares(c, st, sym, d, price_type)
    IN  [cash      |-> st.cash - EntryCost(c, st, sym, d, price_type),
         positions |-> Append(st.positions,
                          [symbol |-> sym, shares |-> sh, entry_price |-> px,
                           entry_date |-> DateOf(d), highest_price |-> px]),
         trades    |-> Append(st.trades,
                          [date |-> DateOf(d), symbol |-> sym, action |-> "BUY",
                           price |-> px, shares |-> sh, pnl |-> 0,
                           commission |-> _apply_commission(c, px, sh),
                           raw |-> EntryRaw(c, sym, d, price_type), sig |-> sig]),
         slots     |-> slots_after]

\* _execute_entry that returns remaining_slots unchanged after a fill
_execute_entry_KeepSlots(c, st, d, sym, hasBar, sig, price_type) ==
    IF Holds(st.positions, sym) THEN st
    ELSE IF ~hasBar THEN st
    ELSE IF st.slots <= 0 THEN st
    ELSE IF EntryShares(c, st, sym, d, price_type) <= 0 THEN st
    ELSE IF EntryCost(c, st, sym, d, price_type) > st.cash THEN st
    ELSE EntryFill(c, st, d, sym, sig, price_type, st.slots)

\* _execute_entry without the check that the symbol is already held
_execute_entry_NoHeldCheck(c, st, d, sym, hasBar, sig, price_type) ==
    IF ~hasBar THEN st
    ELSE IF st.slots <= 0 THEN st
    ELSE IF EntryShares(c, st, sym, d, price_type) <= 0 THEN st
    ELSE IF EntryCost(c, st, sym, d, price_type) > st.cash THEN st
    ELSE EntryFill(c, st, d, sym, sig, price_type, st.slots - 1)

\* _execute_entry that does not compare the total cost with the cash
_execute_entry_NoCashCheck(c, st, d, sym, hasBar, sig, price_type) ==
    IF Holds(st.positions, sym) THEN st
    ELSE IF ~hasBar THEN st
    ELSE IF st.slots <= 0 THEN st
    ELSE IF EntryShares(c, st, sym, d, price_type) <= 0 THEN st
    ELSE EntryFill(c, st, d, sym, sig, price_type, st.slots - 1)

\* Backtester._execute_entry on the ledger st = [cash, positions, trades, slots];
\* st.slots is remaining_slots, returned updated in the result
_execute_entry(c, st, d, sym, hasBar, sig, price_type) ==
    IF Holds(st.positions, sym) THEN st
    ELSE IF ~hasBar THEN st
    ELSE IF st.slots <= 0 THEN st
    ELSE IF EntryShares(c, st, sym, d, price_type) <= 0 THEN st
    ELSE IF EntryCost(c, st, sym, d, price_type) > st.cash THEN st
    ELSE EntryFill(c, st, d, sym, sig, price_type, st.slots - 1)

Ledger(c, cash_, pos, tr) ==
    [cash |-> cash_, positions |-> pos, trades |-> tr,
     slots |-> c.max_positions - Len(pos)]

-----------------------------------------------------------------------------
(* Backtester._process_pending_entries *)

RECURSIVE PendingLoop(_, _, _, _, _, _)
\* the for loop of lines 165-178; acc = [st, still_pending]
PendingLoop(c, d, md, pend, i, acc) ==
    IF i > Len(pend) THEN acc
    ELSE LET sig  == pend[i]
             keep == [acc EXCEPT !.still_pending = Append(@, sig)]
         IN  IF acc.st.slots <= 0 THEN PendingLoop(c, d, md, pend, i + 1, keep)
             ELSE IF sig.exec_date # DateOf(d) THEN PendingLoop(c, d, md, pend, i + 1, keep)
             ELSE IF sig.symbol \notin md THEN PendingLoop(c, d, md, pend, i + 1, keep)
             ELSE PendingLoop(c, d, md, pend, i + 1,
                     [acc EXCEPT !.st = _execute_entry(c, acc.st, d, sig.symbol,
                                            sig.symbol \in md, sig, sig.exec_price_type)])

RECURSIVE PendingLoopDrop(_, _, _, _, _, _)
\* the loop dropping a due signal whose symbol has no data ("or could drop")
PendingLoopDrop(c, d, md, pend, i, acc) ==
    IF i > Len(pend) THEN acc
    ELSE LET sig  == pend[i]
             keep == [acc EXCEPT !.still_pending = Append(@, sig)]
         IN  IF acc.st.slots <= 0 THEN PendingLoopDrop(c, d, md, pend, i + 1, keep)
             ELSE IF sig.exec_date # DateOf(d) THEN PendingLoopDrop(c, d, md, pend, i + 1, keep)
             ELSE IF sig.symbol \notin md THEN PendingLoopDrop(c, d, md, pend, i + 1, acc)
             ELSE PendingLoopDrop(c, d, md, pend, i + 1,
                     [acc EXCEPT !.st = _execute_entry(c, acc.st, d, sig.symbol,
                                            sig.symbol \in md, sig, sig.exec_price_type)])

\* _process_pending_entries with that loop
_process_pending_entries_Drop(c, d, md, cash_, pos, tr, pend) ==
    PendingLoopDrop(c, d, md, pend, 1,
                    [st |-> Ledger(c, cash_, pos, tr), still_pending |-> <<>>])

_process_pending_entries(c, d, md, cash_, pos, tr, pend) ==
    PendingLoop(c, d, md, pend, 1,
                [st |-> Ledger(c, cash_, pos, tr), still_pending |-> <<>>])

-----------------------------------------------------------------------------
(* Backtester._process_exits *)

\* (dt - pos['entry_date']).days
HoldingDays(d, pos) == DateOf(d) - pos.entry_date

\* MockCompositeStrategy.evaluate_exit of test_backtester_core.py
MockHoldDays == 2
MockExit(d, pos) == HoldingDays(d, pos) >= MockHoldDays

RECURSIVE ExitLoop(_, _, _, _, _, _, _)
\* the loops of lines 67-96; exits = symbols the strategy decides to exit;
\* acc = [cash, trades, positions (those kept)]
ExitLoop(c, d, md, pos, i, exits, acc) ==
    IF i > Len(pos) THEN acc
    ELSE LET p          == pos[i]
             bar_close  == ClosePx(c, p.symbol, d)
             hp         == IF bar_close * SlipDen > p.highest_price
                           THEN bar_close * SlipDen ELSE p.highest_price
             exec_price == _apply_slippage(c, bar_close, "SELL")
             commission == _apply_commission(c, exec_price, p.shares)
             gross      == Gross(exec_price, p.shares)
             pnl        == (exec_price - p.entry_price) * p.shares * RateDen - commission
         IN  IF p.symbol \notin md
             THEN ExitLoop(c, d, md, pos, i + 1, exits,
                           [acc EXCEPT !.positions = Append(@, p)])
             ELSE IF p.symbol \in exits
             THEN ExitLoop(c, d, md, pos, i + 1, exits,
                           [acc EXCEPT !.cash = @ + gross - commission,
                                       !.trades = Append(@,
                                          [date |-> DateOf(d), symbol |-> p.symbol,
                                           action |-> "SELL", price |-> exec_price,
                                           shares |-> p.shares, pnl |-> pnl,
                                           commission |-> commission,
                                           holding_days |-> HoldingDays(d, p),
                                           raw |-> bar_close])])
             ELSE ExitLoop(c, d, md, pos, i + 1, exits,
                           [acc EXCEPT !.positions = Append(@, [p EXCEPT !.highest_price = hp])])

_process_exits(c, d, md, cash_, pos, tr, exits) ==
    ExitLoop(c, d, md, pos, 1, exits, [cash |-> cash_, trades |-> tr, positions |-> <<>>])

-----------------------------------------------------------------------------
(* Backtester._process_entries *)

RECURSIVE EntryLoop(_, _, _, _, _, _)
\* the for loop of lines 144-158; acc = [st, pending]
EntryLoop(c, d, md, sigs, i, acc) ==
    IF i > Len(sigs) THEN acc
    ELSE LET sig == sigs[i]
             exec_price_type == IF sig.exec_price_type = "absent" THEN "close"
                                ELSE sig.exec_price_type
             st2 == _execute_entry(c, acc.st, d, sig.symbol, sig.symbol \in md,
                                   sig, exec_price_type)
         IN  IF sig.symbol \notin md THEN EntryLoop(c, d, md, sigs, i + 1, acc)
             ELSE IF sig.exec_date # NoDate /\ sig.exec_date # DateOf(d)
             THEN EntryLoop(c, d, md, sigs, i + 1,
                     [acc EXCEPT !.pending =
                         Append(@, [sig EXCEPT !.exec_price_type = exec_price_type])])
             ELSE IF st2.slots <= 0 THEN [acc EXCEPT !.st = st2]
             ELSE EntryLoop(c, d, md, sigs, i + 1, [acc EXCEPT !.st = st2])

\* _process_entries that does not store the future signals
_process_entries_DropPending(c, d, md, cash_, pos, tr, pend, sigs) ==
    [EntryLoop(c, d, md, sigs, 1, [st |-> Ledger(c, cash_, pos, tr), pending |-> pend])
        EXCEPT !.pending = pend]

_process_entries(c, d, md, cash_, pos, tr, pend, sigs) ==
    EntryLoop(c, d, md, sigs, 1, [st |-> Ledger(c, cash_, pos, tr), pending |-> pend])

-----------------------------------------------------------------------------
(* Portfolio.mark_session *)

RECURSIVE MarkValue(_, _, _, _, _)
\* total_value of lines 33-37, prices being the closes of market_data
MarkValue(c, d, md, pos, i) ==
    IF i > Len(pos) THEN 0
    ELSE (IF pos[i].symbol \in md
          THEN ClosePx(c, pos[i].symbol, d) * pos[i].shares * MoneyScale
          ELSE 0) + MarkValue(c, d, md, pos, i + 1)

\* mark_session that values only the cash
mark_session_CashOnly(c, d, md, cash_, pos) ==
    [date |-> DateOf(d), session |-> "close", total_value |-> cash_,
     cash |-> cash_, positions |-> Len(pos)]

mark_session(c, d, md, cash_, pos) ==
    [date |-> DateOf(d), session |-> "close",
     total_value |-> cash_ + MarkValue(c, d, md, pos, 1),
     cash |-> cash_, positions |-> Len(pos)]

-----------------------------------------------------------------------------
(* Strategies driving the Backtester *)

\* An entry signal as the Backtester reads it: sig['symbol'], sig.get('exec_date'),
\* sig.get('exec_price_type'); id and emitted (the day of the generate_entries
\* call) identify the signal in the properties.
Signal(id, sym, exec_date, exec_price_type, d) ==
    [id |-> id, symbol |-> sym, exec_date |-> exec_date,
     exec_price_type |-> exec_price_type, emitted |-> DateOf(d)]

\* What one signal of an arbitrary strategy may carry on day d
SignalShapes(d) ==
    {[symbol |-> s, exec_date |-> k[1], exec_price_type |-> k[2]] :
        s \in Range(Symbols),
        k \in {<<NoDate, "absent">>, <<DateOf(d), "absent">>,
               <<DateOf(d + 1), "open">>, <<DateOf(d + 1), "absent">>}}

\* The lists an arbitrary strategy.generate_entries may return on day d
Batches(d, firstId) ==
    UNION {{[i \in 1..n |-> Signal(firstId + i - 1, f[i].symbol, f[i].exec_date,
                                   f[i].exec_price_type, d)] :
                f \in [1..n -> SignalShapes(d)]} :
           n \in {k \in 0..MaxBatch : firstId + k - 1 <= MaxSignals}}

\* MockCompositeStrategy.generate_entries of test_backtester_core.py
MockEntries(d, md, firstId, issued_) ==
    IF ~issued_ /\ md # {}
    THEN <<Signal(firstId, "A", NoDate, "absent", d)>>
    ELSE <<>>

-----------------------------------------------------------------------------
(* Backtester.__init__ and Backtester.run *)

\* The runs explored: the unit tests' mock strategy over every table, and an
\* arbitrary strategy over the two-symbol universe
Configs ==
    {k \in [max_positions   : {1, 2},
            initial_capital : {100},
            costs           : {[slippage_bp |-> 0, rate_num |-> 0],
                               [slippage_bp |-> 100, rate_num |-> 1]},
            strategy        : {"mock", "any"},
            universe_size   : {1, 2},
            prices          : {"flat", "spread"},
            data            : {"full", "gapA", "holiday"},
            execution_mode  : {"unset", "next_open"}] :
        k.strategy = "any" => /\ k.universe_size = 2
                              /\ k.execution_mode = "unset"
                              /\ k.data # "full"}

IdleTrail == [pc |-> "idle"]
IdleTPlus == [pc |-> "idle"]
IdleAdv == [pc |-> "idle"]
IdleSync == [pc |-> "idle"]
IdlePub == [pc |-> "idle"]
IdleRev == [pc |-> "idle"]
IdleSrv == [pc |-> "idle"]
IdleMcp == [pc |-> "idle"]
IdleWr == [pc |-> "idle"]
IdleMdh == [pc |-> "idle"]
IdleQs == [pc |-> "idle"]

\* the rnotegen_v2 objects are not constructed
IdleRnotegen ==
    /\ sync = IdleSync
    /\ pub = IdlePub
    /\ rev = IdleRev
    /\ srv = IdleSrv

\* the client, the single-pass writer and the quant utilities are not constructed
IdleApp ==
    /\ mcp = IdleMcp
    /\ wr = IdleWr
    /\ mdh = IdleMdh
    /\ qs = IdleQs

Init ==
    /\ pc = "init"
    /\ \E k \in Configs :
          cfg = [max_positions |-> k.max_positions,
                 initial_capital |-> k.initial_capital,
                 slippage_bp |-> k.costs.slippage_bp,
                 rate_num |-> k.costs.rate_num,
                 strategy |-> k.strategy,
                 universe_size |-> k.universe_size,
                 prices |-> k.prices,
                 data |-> k.data,
                 execution_mode |-> k.execution_mode]
    /\ day = 0
    /\ market_data = {}
    /\ cash = 0
    /\ positions = <<>>
    /\ trades = <<>>
    /\ pending_entries = <<>>
    /\ history = <<>>
    /\ issued = FALSE
    /\ nextId = 1
    /\ asked = [day |-> -1, called |-> FALSE, signals |-> <<>>]
    /\ trail = IdleTrail
    /\ tplus = IdleTPlus
    /\ adv = IdleAdv
    /\ IdleRnotegen
    /\ IdleApp

\* Backtester.__init__: the signature has no execution_mode parameter and no
\* **kwargs, so a call that passes one raises TypeError
Construct ==
    /\ pc = "init"
    /\ IF cfg.execution_mode # "unset"
       THEN /\ pc' = "TypeError"
            /\ cash' = cash
       ELSE /\ pc' = IF NDays > 0 THEN "load" ELSE "done"
            /\ cash' = cfg.initial_capital * MoneyScale
    /\ UNCHANGED <<cfg, day, market_data, positions, trades, pending_entries,
                   history, issued, nextId, asked, trail, tplus, adv, rnVars, appVars>>

\* run, line 185: _load_daily_universe keeps the symbols with a row at dt
LoadDailyUniverse ==
    /\ pc = "load"
    /\ market_data' = {s \in Universe(cfg) : HasBar(cfg, s, day)}
    /\ pc' = "pending"
    /\ UNCHANGED <<cfg, day, cash, positions, trades, pending_entries,
                   history, issued, nextId, asked, trail, tplus, adv, rnVars, appVars>>

\* run, line 187
ProcessPendingEntries ==
    /\ pc = "pending"
    /\ IF pending_entries = <<>>
       THEN UNCHANGED <<cash, positions, trades, pending_entries, appVars>>
       ELSE LET r == _process_pending_entries(cfg, day, market_data, cash,
                                              positions, trades, pending_entries)
            IN  /\ cash' = r.st.cash
                /\ positions' = r.st.positions
                /\ trades' = r.st.trades
                /\ pending_entries' = r.still_pending
    /\ pc' = "exits"
    /\ UNCHANGED <<cfg, day, market_data, history, issued, nextId, asked, trail, tplus, adv, rnVars, appVars>>

\* run, line 189; the exit decisions come from strategy.evaluate_exit: the test's
\* mock, or any strategy (every repository exit rule prices the exit at the
\* bar close or leaves the price None, so exec_price is the slipped close)
ProcessExits ==
    /\ pc = "exits"
    /\ \E exits \in SUBSET {positions[i].symbol : i \in 1..Len(positions)} :
          /\ cfg.strategy = "mock" =>
                exits = {positions[i].symbol : i \in {j \in 1..Len(positions) :
                                                        MockExit(day, positions[j])}}
          /\ exits \subseteq market_data
          /\ LET r == _process_exits(cfg, day, market_data, cash, positions, trades, exits)
             IN  /\ cash' = r.cash
                 /\ positions' = r.positions
                 /\ trades' = r.trades
    /\ pc' = "entries"
    /\ UNCHANGED <<cfg, day, market_data, pending_entries, history, issued, nextId,
                   asked, trail, tplus, adv, rnVars, appVars>>

\* run, line 191
ProcessEntries ==
    /\ pc = "entries"
    /\ IF cfg.max_positions - Len(positions) <= 0
       THEN /\ asked' = [day |-> day, called |-> FALSE, signals |-> <<>>]
            /\ UNCHANGED <<cash, positions, trades, pending_entries, issued, nextId, appVars>>
       ELSE \E sigs \in (IF cfg.strategy = "mock"
                         THEN {MockEntries(day, market_data, nextId, issued)}
                         ELSE Batches(day, nextId)) :
               LET r == _process_entries(cfg, day, market_data, cash, positions,
                                         trades, pending_entries, sigs)
               IN  /\ asked' = [day |-> day, called |-> TRUE, signals |-> sigs]
                   /\ issued' = (issued \/ (cfg.strategy = "mock" /\ sigs # <<>>))
                   /\ nextId' = nextId + Len(sigs)
                   /\ cash' = r.st.cash
                   /\ positions' = r.st.positions
                   /\ trades' = r.st.trades
                   /\ pending_entries' = r.pending
    /\ pc' = "mark"
    /\ UNCHANGED <<cfg, day, market_data, history, trail, tplus, adv, rnVars, appVars>>

\* run, lines 193-194, and the loop's step to the next date
MarkToMarket ==
    /\ pc = "mark"
    /\ history' = Append(history, mark_session(cfg, day, market_data, cash, positions))
    /\ day' = day + 1
    /\ pc' = IF day + 1 < NDays THEN "load" ELSE "done"
    /\ UNCHANGED <<cfg, market_data, cash, positions, trades, pending_entries,
                   issued, nextId, asked, trail, tplus, adv, rnVars, appVars>>

Next ==
    \/ Construct
    \/ LoadDailyUniverse
    \/ ProcessPendingEntries
    \/ ProcessExits
    \/ ProcessEntries
    \/ MarkToMarket

Spec == Init /\ [][Next]_vars

-----------------------------------------------------------------------------
(* Properties of the Backtester *)

IsBuy(t) == t.action = "BUY"
IsSell(t) == t.action = "SELL"
Last(s) == s[Len(s)]

\* the business day after the one dated dt
NextBusinessDate(dt) == CHOOSE x \in {DateOf(d) : d \in 0..NDays} :
                            \E d \in 0..(NDays - 1) : DateOf(d) = dt /\ x = DateOf(d + 1)

\* a signal that carries an exec_date other than the day it was returned on
Deferred(sig) == sig.exec_date # NoDate /\ sig.exec_date # sig.emitted

\* C1: the number of open positions never exceeds max_positions, in every
\* state of a run and so after each phase of every day
C1_MaxPositions == Len(positions) <= cfg.max_positions

\* a day on which the portfolio is full after the entry phase and a signal of
\* that day was refused
C1_Witness ==
    /\ pc = "mark"
    /\ Len(positions) = cfg.max_positions
    /\ \E i \in 1..Len(asked.signals) :
          /\ ~Deferred(asked.signals[i])
          /\ asked.signals[i].symbol \in market_data
          /\ ~Holds(positions, asked.signals[i].symbol)

TradesOf(sym) == SelectSeq(trades, LAMBDA t : t.symbol = sym)

\* C2: per symbol the trade log alternates BUY, SELL, ... from a BUY: the
\* symbol is held exactly when its last trade is a BUY, by one position only
C2_TradesAlternate ==
    \A sym \in Range(Symbols) :
        LET ts == TradesOf(sym)
        IN  /\ \A k \in 1..Len(ts) :
                  ts[k].action = (IF k % 2 = 1 THEN "BUY" ELSE "SELL")
            /\ Cardinality({i \in 1..Len(positions) : positions[i].symbol = sym})
                  = (Len(ts) % 2)

\* a symbol bought on an earlier day; a deferred signal for it came due today
\* while it was held and bought nothing; then the position was sold
C2_Witness ==
    /\ pc = "entries"
    /\ asked.day < day
    /\ \E i, j \in 1..Len(asked.signals) : \E b, s \in 1..Len(trades) :
          /\ IsBuy(trades[b])
          /\ trades[b].sig.id = asked.signals[i].id
          /\ trades[b].date < DateOf(day)
          /\ IsSell(trades[s])
          /\ trades[s].symbol = trades[b].symbol
          /\ trades[s].date = DateOf(day)
          /\ asked.signals[j].symbol = trades[b].symbol
          /\ asked.signals[j].exec_date = DateOf(day)
          /\ asked.signals[j].symbol \in market_data
          /\ ~\E k \in 1..Len(pending_entries) :
                 pending_entries[k].id = asked.signals[j].id
          /\ \A t \in 1..Len(trades) :
                 IsBuy(trades[t]) => trades[t].sig.id # asked.signals[j].id

RECURSIVE CloseValue(_, _)
\* sum over the positions with index in idx of shares * close of business day d,
\* on MoneyScale
CloseValue(idx, d) ==
    IF idx = {} THEN 0
    ELSE LET i == CHOOSE x \in idx : TRUE
         IN  ClosePx(cfg, positions[i].symbol, d) * positions[i].shares * MoneyScale
             + CloseValue(idx \ {i}, d)

Snapshotted == pc \in {"load", "done"} /\ history # <<>>

\* C3 as claimed: the snapshot just appended values every open position
C3_AllPositionsValued ==
    Snapshotted =>
        Last(history).total_value =
            Last(history).cash + CloseValue(1..Len(positions), day - 1)

\* C3 amended: the snapshot just appended has total_value equal to cash plus
\* shares times close over the open positions whose symbol has a bar that day
C3_PricedPositionsValued ==
    Snapshotted =>
        /\ Last(history).cash = cash
        /\ Last(history).total_value =
              cash + CloseValue({i \in 1..Len(positions) :
                                    HasBar(cfg, positions[i].symbol, day - 1)}, day - 1)

\* a snapshot taken with one position priced and another without a bar
C3_Witness ==
    /\ Snapshotted
    /\ \E i \in 1..Len(positions) : HasBar(cfg, positions[i].symbol, day - 1)
    /\ \E i \in 1..Len(positions) : ~HasBar(cfg, positions[i].symbol, day - 1)

\* C4, in every state: a deferred signal is bought only on its exec_date, and
\* no signal is bought twice
C4_State ==
    /\ \A i \in 1..Len(trades) :
          (IsBuy(trades[i]) /\ Deferred(trades[i].sig))
             => trades[i].date = trades[i].sig.exec_date
    /\ \A i, j \in 1..Len(trades) :
          (i < j /\ IsBuy(trades[i]) /\ IsBuy(trades[j]))
             => trades[i].sig.id # trades[j].sig.id

\* BUY trades the pending phase logs for the signals queued before position i
FillsBefore(i) ==
    Cardinality({j \in (Len(trades) + 1)..Len(trades') :
                    \E k \in 1..(i - 1) : pending_entries[k].id = trades'[j].sig.id})

\* C4, in the pending phase: a signal due today stays queued when no slot is
\* free at its turn or its symbol has no data today
C4_Step ==
    pc = "pending" =>
        \A i \in 1..Len(pending_entries) :
            LET sig == pending_entries[i]
            IN  ( /\ sig.exec_date = DateOf(day)
                  /\ \/ cfg.max_positions - Len(positions) - FillsBefore(i) <= 0
                     \/ sig.symbol \notin Universe(cfg)
                     \/ ~HasBar(cfg, sig.symbol, day) )
                => \E k \in 1..Len(pending_entries') : pending_entries'[k] = sig

\* C4: a deferred entry signal is executed only on its exec_date and at most
\* once, and one that is due but blocked by slots or data remains queued
C4_DeferredEntry == [][C4_State' /\ C4_Step]_vars

\* after a pending phase: one deferred signal was bought and another, due
\* today, is still queued
C4_Witness ==
    /\ pc = "exits"
    /\ \E i \in 1..Len(pending_entries) : pending_entries[i].exec_date = DateOf(day)
    /\ \E i \in 1..Len(trades) :
          IsBuy(trades[i]) /\ Deferred(trades[i].sig) /\ trades[i].date = DateOf(day)

Queued(sig) == \E k \in 1..Len(pending_entries) : pending_entries[k].id = sig.id

\* C5 as claimed: on every day the strategy is asked and every returned signal
\* with another exec_date is queued
C5_AlwaysAskedAndQueued ==
    pc = "mark" =>
        /\ asked.day = day
        /\ asked.called
        /\ \A i \in 1..Len(asked.signals) :
              Deferred(asked.signals[i]) => Queued(asked.signals[i])

\* BUY trades of today's signals returned before position i
BoughtBefore(i) ==
    Cardinality({j \in 1..Len(trades) :
                    /\ IsBuy(trades[j])
                    /\ \E k \in 1..(i - 1) : asked.signals[k].id = trades[j].sig.id})

\* free slots when the entry phase of today began
SlotsAtEntry ==
    cfg.max_positions - (Len(positions) - BoughtBefore(Len(asked.signals) + 1))

\* C5 amended: the strategy is asked exactly on the days that reach the entry
\* phase with a free slot, and a returned signal with another exec_date is
\* queued when its symbol has data that day and the signals before it have not
\* filled the last free slot
C5_AskedWhenFreeAndQueued ==
    pc = "mark" =>
        /\ asked.day = day
        /\ asked.called <=> (SlotsAtEntry > 0)
        /\ \A i \in 1..Len(asked.signals) :
              ( /\ Deferred(asked.signals[i])
                /\ asked.signals[i].symbol \in Universe(cfg)
                /\ HasBar(cfg, asked.signals[i].symbol, day)
                /\ SlotsAtEntry - BoughtBefore(i) > 0 )
              => Queued(asked.signals[i])

\* the strategy was asked and one of its signals for a later day is queued
C5_Witness ==
    /\ pc = "mark"
    /\ asked.called
    /\ \E i \in 1..Len(asked.signals) :
          Deferred(asked.signals[i]) /\ Queued(asked.signals[i])

\* C6: a Backtester constructed with execution_mode = 'next_open' runs, and
\* every signal it buys is bought on the business day after the signal's day,
\* at that day's open
C6_NextOpenFill ==
    cfg.execution_mode = "next_open" =>
        /\ pc # "TypeError"
        /\ \A i \in 1..Len(trades) :
              IsBuy(trades[i]) =>
                 /\ trades[i].date # trades[i].sig.emitted
                 /\ trades[i].date = NextBusinessDate(trades[i].sig.emitted)
                 /\ \E d \in 0..(NDays - 1) :
                       /\ DateOf(d) = trades[i].date
                       /\ trades[i].raw = OpenPx(cfg, trades[i].symbol, d)

\* C8: one symbol, constant price, max_positions 1, non-zero commission and
\* slippage, the mock strategy: the finished run logged one BUY then one SELL
C8_BasicCycle ==
    ( /\ pc = "done"
      /\ cfg.strategy = "mock"
      /\ cfg.universe_size = 1
      /\ cfg.prices = "flat"
      /\ cfg.data = "full"
      /\ cfg.max_positions = 1
      /\ cfg.slippage_bp > 0
      /\ cfg.rate_num > 0 )
    => /\ Len(trades) = 2
       /\ IsBuy(trades[1])
       /\ IsSell(trades[2])

\* a BUY at i closed by the SELL at j
RoundTrip(i, j) ==
    /\ i < j
    /\ IsBuy(trades[i])
    /\ IsSell(trades[j])
    /\ trades[i].symbol = trades[j].symbol
    /\ \A k \in (i + 1)..(j - 1) : trades[k].symbol # trades[i].symbol

\* C9: a round trip at an unchanged raw price under non-zero slippage and
\* commission has positive commission on both legs and negative realised pnl
C9_RoundTripLoses ==
    \A i, j \in 1..Len(trades) :
        ( /\ RoundTrip(i, j)
          /\ trades[i].raw = trades[j].raw
          /\ cfg.slippage_bp > 0
          /\ cfg.rate_num > 0 )
        => /\ trades[i].commission > 0
           /\ trades[j].commission > 0
           /\ trades[j].pnl < 0

\* such a round trip was traded
C9_Witness ==
    /\ cfg.slippage_bp > 0
    /\ cfg.rate_num > 0
    /\ \E i, j \in 1..Len(trades) : RoundTrip(i, j) /\ trades[i].raw = trades[j].raw

-----------------------------------------------------------------------------
(* TrailingStopExit.evaluate, bar by bar on one position *)

PctDen == 100       \* trailing_pct = trailing_num / PctDen

\* closes of the bars, the path of test_exit_strategies.py among them
BarCloses == {95, 100, 102, 103, 104, 105}

\* position['highest_price'] before the first bar: absent, the test's 100.0, or
\* an entry price above every close (the Backtester seeds it with the fill price)
SeedPrices == {NoPrice, 100, 110}

\* TrailingStopExit.evaluate with a strict comparison against the stop level
TrailingStopExit_evaluate_Strict(trailing_num, hp, price) ==
    IF hp = NoPrice \/ price > hp
    THEN [highest_price |-> price, exit |-> FALSE, reason |-> ""]
    ELSE IF price * PctDen < hp * (PctDen - trailing_num)
    THEN [highest_price |-> hp, exit |-> TRUE, reason |-> "trailing_stop"]
    ELSE [highest_price |-> hp, exit |-> FALSE, reason |-> ""]

\* TrailingStopExit.evaluate: the position's highest_price after the call and
\* the ExitDecision returned
TrailingStopExit_evaluate(trailing_num, hp, price) ==
    IF hp = NoPrice \/ price > hp
    THEN [highest_price |-> price, exit |-> FALSE, reason |-> ""]
    ELSE IF price * PctDen <= hp * (PctDen - trailing_num)
    THEN [highest_price |-> hp, exit |-> TRUE, reason |-> "trailing_stop"]
    ELSE [highest_price |-> hp, exit |-> FALSE, reason |-> ""]

IdleBacktester ==
    /\ pc = "idle"
    /\ cfg = [strategy |-> "none"]
    /\ day = 0
    /\ market_data = {}
    /\ cash = 0
    /\ positions = <<>>
    /\ trades = <<>>
    /\ pending_entries = <<>>
    /\ history = <<>>
    /\ issued = FALSE
    /\ nextId = 1
    /\ asked = [day |-> -1, called |-> FALSE, signals |-> <<>>]

\* trail: the rule's trailing_pct, the position's highest_price (seed at first),
\* the number of bars evaluated, the last bar's close and decision, and for the
\* properties the largest close and the highest_price before the last bar
InitTrail ==
    /\ IdleBacktester
    /\ IdleApp
    /\ tplus = IdleTPlus
    /\ adv = IdleAdv
    /\ IdleRnotegen
    /\ \E num \in {5, 10} : \E seed \in SeedPrices :
          trail = [pc |-> "eval", trailing_num |-> num, seed |-> seed,
                   highest_price |-> seed, n |-> 0, close |-> NoPrice,
                   exit |-> FALSE, reason |-> "",
                   max_close |-> NoPrice, prev_max_close |-> NoPrice,
                   prev_highest |-> seed]

\* one call trail.evaluate(pos, bar) of the loop in test_trailing_stop_exit
Evaluate ==
    /\ trail.pc = "eval"
    /\ trail.n < MaxEvals
    /\ \E price \in BarCloses :
          LET r == TrailingStopExit_evaluate(trail.trailing_num, trail.highest_price, price)
          IN  trail' = [trail EXCEPT !.highest_price = r.highest_price,
                                     !.n = @ + 1,
                                     !.close = price,
                                     !.exit = r.exit,
                                     !.reason = r.reason,
                                     !.max_close = Max(@, price),
                                     !.prev_max_close = trail.max_close,
                                     !.prev_highest = trail.highest_price]
    /\ UNCHANGED <<btVars, tplus, adv, rnVars, appVars>>

NextTrail == Evaluate

SpecTrail == InitTrail /\ [][NextTrail]_vars

Evaluated == trail.pc = "eval" /\ trail.n > 0

\* the stop level test: close at or below highest_price * (1 - trailing_pct)
AtOrBelowStop ==
    trail.close * PctDen <= trail.highest_price * (PctDen - trail.trailing_num)

\* C10 as claimed: no exit on a bar whose close is a new high of the closes,
\* highest_price is the largest close seen, and the rule exits, with reason
\* trailing_stop, exactly on the bars at or below the stop level
C10_TracksMaxClose ==
    Evaluated =>
        /\ trail.close > trail.prev_max_close => ~trail.exit
        /\ trail.highest_price = trail.max_close
        /\ trail.exit <=> AtOrBelowStop
        /\ trail.exit => trail.reason = "trailing_stop"

\* C10 amended: no exit on a bar whose close exceeds the position's previous
\* highest_price, highest_price is the largest of its initial value and the
\* closes seen, and the rule exits, with reason trailing_stop, exactly on the
\* bars at or below the stop level
C10_TracksSeededHigh ==
    Evaluated =>
        /\ (trail.prev_highest = NoPrice \/ trail.close > trail.prev_highest)
              => ~trail.exit
        /\ trail.highest_price = Max(trail.seed, trail.max_close)
        /\ trail.exit <=> AtOrBelowStop
        /\ trail.exit => trail.reason = "trailing_stop"

\* the test's end: trailing_pct 0.05, running high 105, the bar at 95 exits
C10_Witness ==
    /\ Evaluated
    /\ trail.trailing_num = 5
    /\ trail.seed = 100
    /\ trail.highest_price = 105
    /\ trail.close = 95
    /\ trail.exit
    /\ trail.reason = "trailing_stop"

-----------------------------------------------------------------------------
(* B1EntryTPlus1.generate *)

\* frames: df.index as a strictly increasing sequence of dates
Frames ==
    UNION {{f \in [1..n -> 1..(MaxBars + 1)] : \A i \in 1..(n - 1) : f[i] < f[i + 1]} :
           n \in 0..MaxBars}

\* B1Entry.generate; trigger stands for self._trigger(df, len(df) - 1), the
\* signal carries the fields the T+1 wrapper and the Backtester read
B1Entry_generate(symbol, index, min_trade_days, trigger) ==
    IF Len(index) = 0 \/ Len(index) < min_trade_days THEN <<>>
    ELSE IF ~trigger THEN <<>>
    ELSE <<[symbol |-> symbol, date |-> index[(Len(index) - 1) + 1],
            exec_date |-> NoDate, exec_price_type |-> "absent"]>>

\* B1EntryTPlus1.generate that falls back to the triggering bar when the frame
\* has no later bar
B1EntryTPlus1_generate_SameBar(symbol, index, min_trade_days, trigger) ==
    LET base_signals == B1Entry_generate(symbol, index, min_trade_days, trigger)
        i == Len(index) - 1
        next_dt == IF i + 1 >= Len(index) THEN index[i + 1] ELSE index[(i + 1) + 1]
    IN  IF base_signals = <<>> THEN <<>>
        ELSE [k \in 1..Len(base_signals) |->
                 [base_signals[k] EXCEPT !.exec_date = next_dt,
                                         !.exec_price_type = "open"]]

\* B1EntryTPlus1.generate; i is 0-based as in the source, index 1-based
B1EntryTPlus1_generate(symbol, index, min_trade_days, trigger) ==
    LET base_signals == B1Entry_generate(symbol, index, min_trade_days, trigger)
        i == Len(index) - 1
    IN  IF base_signals = <<>> THEN <<>>
        ELSE IF i + 1 >= Len(index) THEN <<>>
        ELSE [k \in 1..Len(base_signals) |->
                 [base_signals[k] EXCEPT !.exec_date = index[(i + 1) + 1],
                                         !.exec_price_type = "open"]]

InitTPlus ==
    /\ IdleBacktester
    /\ IdleApp
    /\ trail = IdleTrail
    /\ adv = IdleAdv
    /\ IdleRnotegen
    /\ \E f \in Frames : \E m \in 1..3 : \E t \in BOOLEAN :
          tplus = [pc |-> "call", index |-> f, min_trade_days |-> m,
                   trigger |-> t, result |-> <<>>]

\* entry.generate(sym, df)
Generate ==
    /\ tplus.pc = "call"
    /\ tplus' = [tplus EXCEPT
                    !.pc = "returned",
                    !.result = B1EntryTPlus1_generate("A", tplus.index,
                                  tplus.min_trade_days, tplus.trigger)]
    /\ UNCHANGED <<btVars, trail, adv, rnVars, appVars>>

NextTPlus == Generate

SpecTPlus == InitTPlus /\ [][NextTPlus]_vars

\* the bars of the frame that B1Entry raises a signal on
TriggerBars ==
    LET base == B1Entry_generate("A", tplus.index, tplus.min_trade_days, tplus.trigger)
    IN  {p \in 1..Len(tplus.index) : \E k \in 1..Len(base) : base[k].date = tplus.index[p]}

-----------------------------------------------------------------------------
(* AdvancedExit.evaluate, bar by bar on one position *)

None == -1          \* an Optional field or parameter that is None / absent

\* closes of the bars: the test's path with a bar at the stop (90), at the
\* target (130) and one between the two
AdvCloses == {90, 95, 100, 104, 105, 130}

\* AdvancedExit(trailing_pct, max_holding_days, lock_profit_after_rr)
AdvRules ==
    [trailing_num : {None, 5}, max_holding_days : {None, 2},
     lock_profit_after_rr : {None, 1}]

\* the position dict before the first bar: entry_price 100.0 as in the test,
\* stop_loss and target_price as the entry signal carried them
AdvPositions ==
    [entry_price : {100}, stop_loss : {None, 90}, target_price : {None, 104, 130},
     highest_price : {None, 100, 110}]

\* the stop_loss left in the position by the break-even elevation
LockedStop(self, position, price) ==
    LET sl == position.stop_loss
        entry_px == position.entry_price
        risk == entry_px - sl
    IN  IF /\ self.lock_profit_after_rr # None
           /\ sl # None
           /\ risk > 0
           /\ (price - entry_px) >= risk * self.lock_profit_after_rr
           /\ sl < entry_px
        THEN entry_px
        ELSE sl

\* AdvancedExit.evaluate with the take-profit test ahead of the trailing stop
AdvancedExit_evaluate_TargetFirst(self, position, price, holding_days) ==
    LET sl == position.stop_loss
        hp0 == position.highest_price
        hp == IF hp0 = None \/ price > hp0 THEN price ELSE hp0
        tp == position.target_price
        after == [position EXCEPT !.highest_price = hp,
                                  !.stop_loss = LockedStop(self, position, price)]
    IN  IF sl # None /\ price <= sl
        THEN [position |-> position, exit |-> TRUE, reason |-> "stop_loss"]
        ELSE IF tp # None /\ price >= tp
        THEN [position |-> after, exit |-> TRUE, reason |-> "take_profit"]
        ELSE IF /\ self.trailing_num # None
                /\ price * PctDen <= hp * (PctDen - self.trailing_num)
        THEN [position |-> after, exit |-> TRUE, reason |-> "trailing_stop"]
        ELSE IF /\ self.max_holding_days # None
                /\ holding_days >= self.max_holding_days
        THEN [position |-> after, exit |-> TRUE, reason |-> "time_stop"]
        ELSE [position |-> after, exit |-> FALSE, reason |-> ""]

\* AdvancedExit.evaluate(position, bar): the position dict after the call and
\* the ExitDecision returned; price is bar['close'] and holding_days is
\* (bar['date'] - position['entry_date']).days
AdvancedExit_evaluate(self, position, price, holding_days) ==
    LET sl == position.stop_loss
        hp0 == position.highest_price
        hp == IF hp0 = None \/ price > hp0 THEN price ELSE hp0
        tp == position.target_price
        after == [position EXCEPT !.highest_price = hp,
                                  !.stop_loss = LockedStop(self, position, price)]
    IN  IF sl # None /\ price <= sl
        THEN [position |-> position, exit |-> TRUE, reason |-> "stop_loss"]
        ELSE IF /\ self.trailing_num # None
                /\ price * PctDen <= hp * (PctDen - self.trailing_num)
        THEN [position |-> after, exit |-> TRUE, reason |-> "trailing_stop"]
        ELSE IF tp # None /\ price >= tp
        THEN [position |-> after, exit |-> TRUE, reason |-> "take_profit"]
        ELSE IF /\ self.max_holding_days # None
                /\ holding_days >= self.max_holding_days
        THEN [position |-> after, exit |-> TRUE, reason |-> "time_stop"]
        ELSE [position |-> after, exit |-> FALSE, reason |-> ""]

\* adv: the rule, the position dict, the number of bars evaluated (bar n is
\* dated n - 1 days after entry_date), the last bar's close and decision, and
\* for the properties the position dict before the last call
InitAdv ==
    /\ IdleBacktester
    /\ IdleApp
    /\ trail = IdleTrail
    /\ tplus = IdleTPlus
    /\ IdleRnotegen
    /\ \E rule \in AdvRules : \E pos \in AdvPositions :
          adv = [pc |-> "eval", self |-> rule, position |-> pos, before |-> pos,
                 n |-> 0, close |-> NoPrice, holding_days |-> 0,
                 exit |-> FALSE, reason |-> ""]

\* one call adv.evaluate(pos, bar) of the loop in test_advanced_exit_priority
EvaluateAdv ==
    /\ adv.pc = "eval"
    /\ adv.n < MaxEvals
    /\ \E price \in AdvCloses :
          LET r == AdvancedExit_evaluate(adv.self, adv.position, price, adv.n)
          IN  adv' = [adv EXCEPT !.position = r.position,
                                 !.before = adv.position,
                                 !.n = @ + 1,
                                 !.close = price,
                                 !.holding_days = adv.n,
                                 !.exit = r.exit,
                                 !.reason = r.reason]
    /\ UNCHANGED <<btVars, trail, tplus, rnVars, appVars>>

NextAdv == EvaluateAdv

SpecAdv == InitAdv /\ [][NextAdv]_vars

\* the four exit conditions on the last bar, from the position before the call
StopLossHolds ==
    adv.before.stop_loss # None /\ adv.close <= adv.before.stop_loss

HighAtBar ==
    IF adv.before.highest_price = None \/ adv.close > adv.before.highest_price
    THEN adv.close
    ELSE adv.before.highest_price

TrailingStopHolds ==
    /\ adv.self.trailing_num # None
    /\ adv.close * PctDen <= HighAtBar * (PctDen - adv.self.trailing_num)

TakeProfitHolds ==
    adv.position.target_price # None /\ adv.close >= adv.position.target_price

TimeStopHolds ==
    /\ adv.self.max_holding_days # None
    /\ adv.holding_days >= adv.self.max_holding_days

\* C11: the reason reported for a bar is the first of stop_loss, trailing_stop,
\* take_profit, time_stop whose condition holds on that bar, and no exit is
\* reported when none holds; a bar that satisfies the trailing-stop condition
\* is never reported as take_profit or time_stop
C11_ReasonPriority ==
    (adv.pc = "eval" /\ adv.n > 0) =>
        /\ adv.reason = ( IF StopLossHolds THEN "stop_loss"
                          ELSE IF TrailingStopHolds THEN "trailing_stop"
                          ELSE IF TakeProfitHolds THEN "take_profit"
                          ELSE IF TimeStopHolds THEN "time_stop"
                          ELSE "" )
        /\ adv.exit = (adv.reason # "")
        /\ TrailingStopHolds => adv.reason \notin {"take_profit", "time_stop"}

\* a bar on which the trailing stop, the take profit and the time stop all
\* hold and the stop loss does not was reported as trailing_stop
C11_Witness ==
    /\ adv.pc = "eval"
    /\ adv.n > 0
    /\ ~StopLossHolds
    /\ TrailingStopHolds
    /\ TakeProfitHolds
    /\ TimeStopHolds
    /\ adv.reason = "trailing_stop"

-----------------------------------------------------------------------------
(* ContentSynchronizer.generate_content and batch_generate *)

MaxRequests == 2        \* longest list passed to batch_generate
MaxRequested == 4       \* largest request.max_iterations

\* review scores in hundredths (a ReviewResult.score has two decimals):
\* 0.0 when no configured dimension was scored, 5.0 for the reviewer's
\* default dimensions, and a higher one
Scores == {0, 500, 700}

\* reviewer_config["reviewer"]["quality_threshold"], in hundredths
Thresholds == {500, 700}

\* a Python call: TypeError when a keyword is not a parameter or a parameter
\* without default gets no argument
CallBinds(parameters, required, keywords) ==
    /\ keywords \subseteq parameters
    /\ required \subseteq keywords

\* the fields of the Article dataclass, none with a default
ArticleFields == {"title", "content", "hashtags", "summary", "word_count", "sources"}

\* the keywords of the two Article(...) calls of the synchronizer
PlaceholderKeywords == {"title", "content", "summary", "hashtags", "word_count"}

\* Article(title=..., content=..., summary=..., hashtags=..., word_count=...)
\* raises TypeError
Article_placeholder_raises ==
    ~CallBinds(ArticleFields, ArticleFields, PlaceholderKeywords)

\* articles and reviews are named by the cycle that produced them; this names
\* the fixed fallback article and review
Fallback == 0

\* self.writer_agent.generate_content(theme=, requirements=, materials=,
\* target_audience=, content_type=, min_word_count=) on the repository's
\* WriterAgent, whose parameters are materials, theme, context, feedback
WriterAgent_call_binds ==
    CallBinds({"materials", "theme", "context", "feedback"},
              {"materials", "theme"},
              {"theme", "requirements", "materials", "target_audience",
               "content_type", "min_word_count"})

\* what one cycle's two stages can do: the writer raises; the writer returns an
\* article and the reviewer raises; the reviewer returns a score.  The
\* repository's WriterAgent is never entered when the call does not bind
StageOutcomes(writer) ==
    IF writer = "WriterAgent" /\ ~WriterAgent_call_binds
    THEN {[article |-> FALSE, score |-> None]}
    ELSE {[article |-> FALSE, score |-> None], [article |-> TRUE, score |-> None]}
         \cup {[article |-> TRUE, score |-> sc] : sc \in Scores}

\* tracking of the best result where an equal score replaces the tracked one
TrackBest_Ties(call, k, score) ==
    IF score >= call.best_score
    THEN [call EXCEPT !.best_article = k, !.best_review = k, !.best_score = score]
    ELSE call

\* "Track best result": cycle k ended with a review of this score
TrackBest(call, k, score) ==
    IF score > call.best_score
    THEN [call EXCEPT !.best_article = k, !.best_review = k, !.best_score = score]
    ELSE call

Min(a, b) == IF a < b THEN a ELSE b

\* self.max_iterations of ContentSynchronizer.__init__
ConfiguredMaxIterations == 3

\* the local variables of generate_content at the top of the while loop;
\* cycles records what each cycle's stages did
NewCall(request_max_iterations) ==
    [iterations |-> 0,
     max_iterations |-> Min(request_max_iterations, ConfiguredMaxIterations),
     best_article |-> None, best_review |-> None, best_score |-> 0,
     cycles |-> <<>>, outcome |-> "running",
     output |-> [status |-> "none"]]

NoCall == [outcome |-> "none"]

\* sync: the writer bound to self.writer_agent, the quality threshold, the
\* requests of the batch (their max_iterations), the number of requests taken
\* from the list, the results list, and the running generate_content call
InitSync ==
    /\ IdleBacktester
    /\ IdleApp
    /\ trail = IdleTrail
    /\ tplus = IdleTPlus
    /\ adv = IdleAdv
    /\ pub = IdlePub
    /\ rev = IdleRev
    /\ srv = IdleSrv
    /\ \E w \in {"WriterAgent", "stub"} : \E th \in Thresholds :
       \E n \in 0..MaxRequests : \E rs \in [1..n -> 0..MaxRequested] :
          sync = [pc |-> "batch", writer |-> w, quality_threshold |-> th,
                  requests |-> rs, i |-> 0, results |-> <<>>, call |-> NoCall]

\* batch_generate: the for loop takes the next request and calls
\* generate_content, which runs up to its while loop
BatchNext ==
    /\ sync.pc = "batch"
    /\ sync.i < Len(sync.requests)
    /\ LET c == NewCall(sync.requests[sync.i + 1])
       IN  sync' = [sync EXCEPT !.i = @ + 1,
                                !.call = c,
                                !.pc = IF c.iterations < c.max_iterations
                                       THEN "loop" ELSE "after_loop"]
    /\ UNCHANGED <<btVars, trail, tplus, adv, pub, rev, srv, appVars>>

\* one pass of the while loop of generate_content
Cycle ==
    /\ sync.pc = "loop"
    /\ \E o \in StageOutcomes(sync.writer) :
          LET k == sync.call.iterations + 1
              c1 == [sync.call EXCEPT !.iterations = k,
                                      !.cycles = Append(@, o)]
              c2 == IF o.score # None THEN TrackBest(c1, k, o.score) ELSE c1
              acceptable == o.score # None /\ o.score >= sync.quality_threshold
          IN  sync' = [sync EXCEPT !.call = c2,
                                   !.pc = IF acceptable \/ k >= c1.max_iterations
                                          THEN "after_loop" ELSE "loop"]
    /\ UNCHANGED <<btVars, trail, tplus, adv, pub, rev, srv, appVars>>

\* generate_content after the loop: the final status and the ContentOutput,
\* or the exception that the outer handler logs and raises again
Finish ==
    /\ sync.pc = "after_loop"
    /\ LET c == sync.call
           raises == c.best_article = None /\ Article_placeholder_raises
           out == IF c.best_article = None
                  THEN [article |-> Fallback, review_result |-> Fallback,
                        iterations |-> c.iterations, final_score |-> 0,
                        status |-> "failed"]
                  ELSE [article |-> c.best_article, review_result |-> c.best_review,
                        iterations |-> c.iterations, final_score |-> c.best_score,
                        status |-> IF c.best_score >= sync.quality_threshold
                                   THEN "success" ELSE "timeout"]
       IN  sync' = [sync EXCEPT
                       !.pc = "call_done",
                       !.call = IF raises
                                THEN [c EXCEPT !.outcome = "raised"]
                                ELSE [c EXCEPT !.outcome = "returned", !.output = out]]
    /\ UNCHANGED <<btVars, trail, tplus, adv, pub, rev, srv, appVars>>

\* batch_generate: the result is appended, or the except branch builds the
\* failed placeholder and appends it; an exception of the except branch
\* leaves batch_generate
BatchCollect ==
    /\ sync.pc = "call_done"
    /\ IF sync.call.outcome = "returned"
       THEN sync' = [sync EXCEPT !.results = Append(@, sync.call.output),
                                 !.pc = "batch"]
       ELSE IF Article_placeholder_raises
       THEN sync' = [sync EXCEPT !.pc = "batch_raised"]
       ELSE sync' = [sync EXCEPT
                        !.results = Append(@, [article |-> Fallback,
                                               review_result |-> Fallback,
                                               iterations |-> 0, final_score |-> 0,
                                               status |-> "failed"]),
                        !.pc = "batch"]
    /\ UNCHANGED <<btVars, trail, tplus, adv, pub, rev, srv, appVars>>

\* batch_generate returns results
BatchReturn ==
    /\ sync.pc = "batch"
    /\ sync.i = Len(sync.requests)
    /\ sync' = [sync EXCEPT !.pc = "batch_returned"]
    /\ UNCHANGED <<btVars, trail, tplus, adv, pub, rev, srv, appVars>>

NextSync ==
    \/ BatchNext
    \/ Cycle
    \/ Finish
    \/ BatchCollect
    \/ BatchReturn

SpecSync == InitSync /\ [][NextSync]_vars

\* a generate_content call has ended, by return or by exception
CallEnded == sync.pc = "call_done"

\* the cycles of the ended call in which writer and reviewer both returned
Completed == {k \in 1..Len(sync.call.cycles) : sync.call.cycles[k].score # None}

\* C12: a generate_content call ends by returning a ContentOutput, after at
\* most max_iterations cycles, whatever the stages did in each cycle
C12_AlwaysReturns ==
    CallEnded =>
        /\ sync.call.outcome = "returned"
        /\ sync.call.output.status \in {"success", "failed", "timeout"}
        /\ sync.call.iterations <= sync.call.max_iterations

\* C13: the call returns status failed with final_score 0 exactly when no
\* cycle produced an article, and otherwise success when the best score
\* reached the quality threshold and timeout when it did not
C13_StatusOfBest ==
    CallEnded =>
        /\ sync.call.outcome = "returned"
        /\ IF \A k \in 1..Len(sync.call.cycles) : ~sync.call.cycles[k].article
           THEN /\ sync.call.output.status = "failed"
                /\ sync.call.output.final_score = 0
           ELSE sync.call.output.status =
                   IF \E k \in Completed :
                         sync.call.cycles[k].score >= sync.quality_threshold
                   THEN "success" ELSE "timeout"

\* the earliest of the completed cycles with the highest score
BestCycle ==
    CHOOSE k \in Completed :
        \A j \in Completed :
            \/ sync.call.cycles[j].score < sync.call.cycles[k].score
            \/ (sync.call.cycles[j].score = sync.call.cycles[k].score /\ k <= j)

C15_OnePerRequest ==
    /\ sync.pc # "batch_raised"
    /\ sync.pc \in {"batch", "batch_returned"} => Len(sync.results) = sync.i
    /\ sync.pc = "batch_returned" => Len(sync.results) = Len(sync.requests)
    /\ (CallEnded /\ sync.call.outcome = "raised") =>
          /\ ~Article_placeholder_raises
          /\ sync.i <= Len(sync.requests)

-----------------------------------------------------------------------------
(* RedNotePublisher.publish_article *)

MaxPublishes == 2      \* calls of publish_article with the same Article

max_title_length == 20
max_content_length == 1000
max_hashtags == 10

\* a str by what the publisher reads of it: len(s) and the number of its
\* characters that are not whitespace (s.strip() is empty when there is none)
Str(len, nonspace) == [len |-> len, nonspace |-> nonspace]

Strip_empty(str) == str.nonspace = 0

\* titles: empty, blank, short, at the limit, over it, and blank over it
Titles == {Str(0, 0), Str(1, 0), Str(1, 1), Str(max_title_length, max_title_length),
           Str(max_title_length + 1, max_title_length + 1),
           Str(max_title_length + 1, 0)}

\* bodies: empty, blank, short, at the limit, over it
Contents == {Str(0, 0), Str(3, 0), Str(10, 10),
             Str(max_content_length, max_content_length),
             Str(max_content_length + 1, max_content_length + 1)}

\* len(article.hashtags) as the caller built the article
HashtagCounts == {0, max_hashtags, max_hashtags + 1}

\* article.hashtags: a list of the caller's own tags
UserTags == <<"t01", "t02", "t03", "t04", "t05", "t06", "t07", "t08", "t09", "t10",
              "t11">>
Hashtags == {SubSeq(UserTags, 1, n) : n \in HashtagCounts}

\* the tags of tech_keywords whose keyword occurs in article.content.lower(),
\* in the order of the dict: none, or the one for "ai"
KeywordTags == {<<>>, <<"AI">>}

\* the four engagement tags, named here in transliteration
engagement_tags == <<"ganhuo fenxiang", "xuexi biji", "jingyan fenxiang", "zhishi kepu">>

\* RedNotePublisher._generate_auto_hashtags
RedNotePublisher_generate_auto_hashtags(article) ==
    LET auto_tags == SelectSeq(article.keyword_tags,
                               LAMBDA tag : tag \notin Range(article.hashtags))
        remaining_slots == max_hashtags - Len(article.hashtags) - Len(auto_tags)
    IN  IF remaining_slots > 0
        THEN auto_tags \o SubSeq(engagement_tags, 1,
                                  IF remaining_slots < 2 THEN remaining_slots ELSE 2)
        ELSE auto_tags

\* RedNotePublisher._format_for_rednote, by what it does to article.hashtags:
\* the local name hashtags is the list of the article itself unless that is
\* longer than max_hashtags, and extend() grows that list in place
RedNotePublisher_format_for_rednote(article, auto_hashtags) ==
    IF auto_hashtags /\ ~(Len(article.hashtags) > max_hashtags)
    THEN [article EXCEPT !.hashtags = @ \o RedNotePublisher_generate_auto_hashtags(article)]
    ELSE article

\* _validate_article that stops at the first violated rule
RedNotePublisher_validate_article_FirstOnly(article) ==
    IF article.title.len > max_title_length THEN <<"Title too long">>
    ELSE IF article.content.len > max_content_length THEN <<"Content too long">>
    ELSE IF Len(article.hashtags) > max_hashtags THEN <<"Too many hashtags">>
    ELSE IF Strip_empty(article.title) THEN <<"Title is required">>
    ELSE IF Strip_empty(article.content) THEN <<"Content is required">>
    ELSE <<>>

\* RedNotePublisher._validate_article: the errors list, in the order appended
RedNotePublisher_validate_article(article) ==
    (IF article.title.len > max_title_length THEN <<"Title too long">> ELSE <<>>)
    \o (IF article.content.len > max_content_length
        THEN <<"Content too long">> ELSE <<>>)
    \o (IF Len(article.hashtags) > max_hashtags THEN <<"Too many hashtags">> ELSE <<>>)
    \o (IF Strip_empty(article.title) THEN <<"Title is required">> ELSE <<>>)
    \o (IF Strip_empty(article.content) THEN <<"Content is required">> ELSE <<>>)

\* RedNotePublisher._publish_to_api (mock implementation): the result dict
RedNotePublisher_publish_to_api(credentials) ==
    IF credentials
    THEN [success |-> TRUE, error |-> <<>>]
    ELSE [success |-> FALSE, error |-> <<"Missing API credentials">>]

\* pub: the article, config.auto_hashtags and config.draft_mode, whether app_id
\* and app_secret are configured, the number of calls made with the article,
\* the article as it was before the last call, and for the last call the
\* PublishResult and whether _format_for_rednote and _publish_to_api were called
InitPub ==
    /\ IdleBacktester
    /\ IdleApp
    /\ trail = IdleTrail
    /\ tplus = IdleTPlus
    /\ adv = IdleAdv
    /\ sync = IdleSync
    /\ rev = IdleRev
    /\ srv = IdleSrv
    /\ \E t \in Titles : \E c \in Contents : \E h \in Hashtags : \E k \in KeywordTags :
       \E a \in BOOLEAN : \E d \in BOOLEAN : \E cr \in BOOLEAN :
          LET article == [title |-> t, content |-> c, hashtags |-> h,
                          keyword_tags |-> IF c.nonspace >= 2 THEN k ELSE <<>>]
          IN  pub = [pc |-> "call", article |-> article, before |-> article,
                     auto_hashtags |-> a, draft_mode |-> d, credentials |-> cr,
                     calls |-> 0,
                     result |-> [success |-> FALSE, error_message |-> <<>>],
                     formatted |-> FALSE, api_called |-> FALSE]

\* await publisher.publish_article(article, config)
PublishArticle ==
    /\ pub.pc \in {"call", "returned"}
    /\ pub.calls < MaxPublishes
    /\ LET errors == RedNotePublisher_validate_article(pub.article)
           api == RedNotePublisher_publish_to_api(pub.credentials)
           call == [pub EXCEPT !.pc = "returned", !.calls = @ + 1,
                               !.before = pub.article]
           formatted == [call EXCEPT !.formatted = TRUE,
                             !.article = RedNotePublisher_format_for_rednote(
                                             pub.article, pub.auto_hashtags)]
       IN  IF errors # <<>>
           THEN pub' = [call EXCEPT !.formatted = FALSE, !.api_called = FALSE,
                           !.result = [success |-> FALSE, error_message |-> errors]]
           ELSE IF pub.draft_mode
           THEN pub' = [formatted EXCEPT !.api_called = FALSE,
                           !.result = [success |-> TRUE, error_message |-> <<>>]]
           ELSE pub' = [formatted EXCEPT !.api_called = TRUE,
                           !.result = [success |-> api.success,
                                       error_message |-> api.error]]
    /\ UNCHANGED <<btVars, trail, tplus, adv, sync, rev, srv, appVars>>

NextPub == PublishArticle

SpecPub == InitPub /\ [][NextPub]_vars

\* the platform rules the article of the call violates
Violated ==
    {e \in {"Title too long"} : pub.article.title.len > max_title_length}
    \cup {e \in {"Content too long"} : pub.article.content.len > max_content_length}
    \cup {e \in {"Too many hashtags"} : Len(pub.article.hashtags) > max_hashtags}
    \cup {e \in {"Title is required"} : pub.article.title.nonspace = 0}
    \cup {e \in {"Content is required"} : pub.article.content.nonspace = 0}

\* C16: publish_article of an article whose title is longer than 20 or whose
\* body is empty returns success False with an error message that names every
\* rule the article violates, and neither formats it nor calls the API
C16_RejectsInvalid ==
    ( /\ pub.pc = "returned"
      /\ \/ pub.article.title.len > 20
         \/ pub.article.content.nonspace = 0 )
    => /\ pub.result.success = FALSE
       /\ Violated \subseteq Range(pub.result.error_message)
       /\ ~pub.formatted
       /\ ~pub.api_called

\* an article with a title over the limit and a blank body was rejected with
\* both rules named
C16_Witness ==
    /\ pub.pc = "returned"
    /\ pub.article.title.len > 20
    /\ pub.article.content.nonspace = 0
    /\ pub.article.content.len > 0
    /\ pub.result.success = FALSE
    /\ {"Title too long", "Content is required"} \subseteq Range(pub.result.error_message)

\* C30: publish_article leaves the Article as it was: after a call,
\* article.hashtags holds the elements it held before the call
C30_ArticleUnchanged ==
    (pub.pc = "returned" /\ pub.calls > 0) =>
        pub.article.hashtags = pub.before.hashtags

-----------------------------------------------------------------------------
(* ReviewerAgent._calculate_total_score *)

MaxCriteria == 2        \* most entries of evaluation_criteria

\* config["weight"] of a criterion, in a common unit
Weights == {1, 2, 3}

\* dimensions[criterion] of the review data: a score, or None for a criterion
\* the reviewer's answer has no score for
DimensionScores == {None, 1, 2, 10}

ScoreDen == 100     \* a total is kept in hundredths: round(x, 2)

\* round(num / den, 2) in hundredths, for num >= 0 and den > 0, ties to even
Round2(num, den) ==
    LET q == (num * ScoreDen) \div den
        r == (num * ScoreDen) % den
    IN  IF 2 * r < den THEN q
        ELSE IF 2 * r > den THEN q + 1
        ELSE IF q % 2 = 0 THEN q ELSE q + 1

RECURSIVE SumOver(_, _)
\* sum of f[k] over the set ks
SumOver(f, ks) ==
    IF ks = {} THEN 0
    ELSE LET k == CHOOSE x \in ks : TRUE
         IN  f[k] + SumOver(f, ks \ {k})

\* _calculate_total_score dividing by the weight of all configured criteria
ReviewerAgent_calculate_total_score_AllWeights(weights, dimensions) ==
    LET present == {k \in 1..Len(weights) : dimensions[k] # None}
        total_score == SumOver([k \in 1..Len(weights) |->
                                   IF k \in present THEN dimensions[k] * weights[k]
                                   ELSE 0], present)
        total_weight == SumOver(weights, 1..Len(weights))
    IN  IF total_weight > 0 THEN Round2(total_score, total_weight) ELSE 0

\* ReviewerAgent._calculate_total_score: weights are those of
\* evaluation_criteria in order, dimensions[k] the score of criterion k
ReviewerAgent_calculate_total_score(weights, dimensions) ==
    LET present == {k \in 1..Len(weights) : dimensions[k] # None}
        total_score == SumOver([k \in 1..Len(weights) |->
                                   IF k \in present THEN dimensions[k] * weights[k]
                                   ELSE 0], present)
        total_weight == SumOver(weights, present)
    IN  IF total_weight > 0 THEN Round2(total_score, total_weight) ELSE 0

\* rev: the weights of evaluation_criteria, the review data's dimensions and
\* the returned total
InitRev ==
    /\ IdleBacktester
    /\ IdleApp
    /\ trail = IdleTrail
    /\ tplus = IdleTPlus
    /\ adv = IdleAdv
    /\ sync = IdleSync
    /\ pub = IdlePub
    /\ srv = IdleSrv
    /\ \E n \in 1..MaxCriteria :
       \E w \in [1..n -> Weights] : \E d \in [1..n -> DimensionScores] :
          rev = [pc |-> "call", weights |-> w, dimensions |-> d, total |-> 0]

\* total_score = self._calculate_total_score(review_data)
CalculateTotalScore ==
    /\ rev.pc = "call"
    /\ rev' = [rev EXCEPT !.pc = "returned",
                          !.total = ReviewerAgent_calculate_total_score(
                                        rev.weights, rev.dimensions)]
    /\ UNCHANGED <<btVars, trail, tplus, adv, sync, pub, srv, appVars>>

NextRev == CalculateTotalScore

SpecRev == InitRev /\ [][NextRev]_vars

\* the configured criteria that the review data scores
Scored == {k \in 1..Len(rev.weights) : rev.dimensions[k] # None}

\* sum of score x weight and sum of weight over the scored criteria
ScoreSum ==
    SumOver([k \in 1..Len(rev.weights) |->
                IF k \in Scored THEN rev.dimensions[k] * rev.weights[k] ELSE 0], Scored)

WeightSum == SumOver(rev.weights, Scored)

\* total is within half a hundredth of ScoreSum / WeightSum
IsRoundedAverage ==
    LET diff == rev.total * WeightSum - ScoreDen * ScoreSum
    IN  /\ 2 * diff <= WeightSum
        /\ 2 * diff >= 0 - WeightSum

\* C17 as stated: for scores in [1,10] and positive weights the total is the
\* weight-normalised average of the scores, to two decimals, and lies
\* within [1,10]
C17_AverageWithinRange ==
    rev.pc = "returned" =>
        /\ Scored # {}
        /\ IsRoundedAverage
        /\ rev.total >= 1 * ScoreDen
        /\ rev.total <= 10 * ScoreDen

\* C17: when the review data scores at least one configured criterion, the
\* total is the average of the scored criteria's scores weighted by their
\* weights, rounded to two decimals, and lies within [1,10]; when it scores
\* none, the total is 0
C17_AverageOfScored ==
    rev.pc = "returned" =>
        IF Scored = {}
        THEN rev.total = 0
        ELSE /\ IsRoundedAverage
             /\ rev.total >= 1 * ScoreDen
             /\ rev.total <= 10 * ScoreDen

\* a total was computed from two criteria of different weights, one scored
\* and one not
C17_Witness ==
    /\ rev.pc = "returned"
    /\ Len(rev.weights) = 2
    /\ rev.weights[1] # rev.weights[2]
    /\ rev.dimensions[1] # None
    /\ rev.dimensions[2] = None
    /\ rev.total = rev.dimensions[1] * ScoreDen

-----------------------------------------------------------------------------
(* MCPServer: POST /tools/call, GET /events, _emit_event *)

MaxCalls == 1           \* POST /tools/call requests received
MaxClients == 2         \* connections made to /events

\* keys of self.tools
RegisteredTools == {"web_search", "fact_check"}

\* request bodies: no JSON object at all, or a name (registered or not) with
\* an id given by the client or left out
Bodies ==
    {[json |-> FALSE, name |-> "", id |-> None]}
    \cup [json : {TRUE}, name : {"web_search", "unknown"}, id : {None}]
    \cup {[json |-> TRUE, name |-> "fact_check", id |-> 7]}

\* str(uuid.uuid4()) drawn for call r: distinct from every other id
Uuid(r) == 100 + r

\* maxsize of queue.Queue(): zero or less makes the queue infinite
EventQueue_maxsize == 0

\* MCPServer._emit_event: the event is recorded in emitted and put on the
\* shared queue, or dropped when the put ends in queue.Full
MCPServer_emit_event(s, event) ==
    LET full == EventQueue_maxsize > 0 /\ Len(s.event_queue) >= EventQueue_maxsize
        e == [event EXCEPT !.dropped = full]
    IN  [s EXCEPT !.emitted = Append(@, e),
                  !.event_queue = IF full THEN @ ELSE Append(@, Len(s.emitted) + 1)]

Event(type, request_id, call) ==
    [type |-> type, request_id |-> request_id, call |-> call, dropped |-> FALSE]

\* call_tool up to tool.execute, without the start event
MCPServer_call_tool_start_Silent(s, r, body) ==
    LET request_id == IF body.id = None THEN Uuid(r) ELSE body.id
        req == [body |-> body, request_id |-> request_id, pc |-> "executing",
                status |-> 0]
    IN  IF ~body.json
        THEN MCPServer_emit_event(
                 [s EXCEPT !.calls = Append(@, [req EXCEPT !.pc = "done",
                                                           !.status = 500])],
                 Event("error", None, r))
        ELSE IF body.name \notin RegisteredTools
        THEN [s EXCEPT !.calls = Append(@, [req EXCEPT !.pc = "done",
                                                       !.status = 404])]
        ELSE [s EXCEPT !.calls = Append(@, req)]

\* call_tool from the request to the call of tool.execute: the body is read,
\* an unknown tool is answered 404, otherwise tool_call_start is emitted; a
\* body that is no JSON object raises and is answered by the except branch
MCPServer_call_tool_start(s, r, body) ==
    LET request_id == IF body.id = None THEN Uuid(r) ELSE body.id
        req == [body |-> body, request_id |-> request_id, pc |-> "executing",
                status |-> 0]
    IN  IF ~body.json
        THEN MCPServer_emit_event(
                 [s EXCEPT !.calls = Append(@, [req EXCEPT !.pc = "done",
                                                           !.status = 500])],
                 Event("error", None, r))
        ELSE IF body.name \notin RegisteredTools
        THEN [s EXCEPT !.calls = Append(@, [req EXCEPT !.pc = "done",
                                                       !.status = 404])]
        ELSE MCPServer_emit_event([s EXCEPT !.calls = Append(@, req)],
                                  Event("tool_call_start", request_id, r))

\* call_tool after tool.execute returned (outcome "returned") or raised
MCPServer_call_tool_end(s, r, outcome) ==
    IF outcome = "returned"
    THEN MCPServer_emit_event(
             [s EXCEPT !.calls[r].pc = "done", !.calls[r].status = 200,
                       !.calls[r].outcome = outcome],
             Event("tool_call_complete", s.calls[r].request_id, r))
    ELSE MCPServer_emit_event(
             [s EXCEPT !.calls[r].pc = "done", !.calls[r].status = 500,
                       !.calls[r].outcome = outcome],
             Event("error", None, r))

\* srv: the calls received, the shared event queue (positions in emitted),
\* self.clients, the connections made so far, for each open connection the
\* number of events emitted before it was made and the events its stream has
\* yielded, and every event passed to _emit_event
InitSrv ==
    /\ IdleBacktester
    /\ IdleApp
    /\ trail = IdleTrail
    /\ tplus = IdleTPlus
    /\ adv = IdleAdv
    /\ sync = IdleSync
    /\ pub = IdlePub
    /\ rev = IdleRev
    /\ srv = [pc |-> "running", calls |-> <<>>, event_queue |-> <<>>,
              clients |-> {}, connections |-> 0,
              joined |-> [c \in 1..MaxClients |-> 0],
              yielded |-> [c \in 1..MaxClients |-> {}],
              emitted |-> <<>>]

\* POST /tools/call arrives and its handler runs up to tool.execute
CallTool ==
    /\ srv.pc = "running"
    /\ Len(srv.calls) < MaxCalls
    /\ \E body \in Bodies :
          LET s1 == MCPServer_call_tool_start(srv, Len(srv.calls) + 1, body)
          IN  srv' = [s1 EXCEPT !.calls[Len(srv.calls) + 1] =
                                    [outcome |-> "none"] @@ @]
    /\ UNCHANGED <<btVars, trail, tplus, adv, sync, pub, rev, appVars>>

\* tool.execute of call r returns or raises and the handler answers
CallToolEnd ==
    /\ srv.pc = "running"
    /\ \E r \in 1..Len(srv.calls) :
          /\ srv.calls[r].pc = "executing"
          /\ \E outcome \in {"returned", "raised"} :
                srv' = MCPServer_call_tool_end(srv, r, outcome)
    /\ UNCHANGED <<btVars, trail, tplus, adv, sync, pub, rev, appVars>>

\* GET /events: the connection is registered in self.clients
Events ==
    /\ srv.pc = "running"
    /\ srv.connections < MaxClients
    /\ srv' = [srv EXCEPT !.connections = @ + 1,
                          !.clients = @ \cup {srv.connections + 1},
                          !.joined[srv.connections + 1] = Len(srv.emitted)]
    /\ UNCHANGED <<btVars, trail, tplus, adv, sync, pub, rev, appVars>>

\* event_stream of connection c: self.event_queue.get returns an event, which
\* is yielded to c (an empty queue gives a heartbeat and changes nothing)
EventStream ==
    /\ srv.pc = "running"
    /\ srv.event_queue # <<>>
    /\ \E c \in srv.clients :
          srv' = [srv EXCEPT !.event_queue = Tail(@),
                             !.yielded[c] = @ \cup {Head(srv.event_queue)}]
    /\ UNCHANGED <<btVars, trail, tplus, adv, sync, pub, rev, appVars>>

\* the connection of c is closed: the finally clause deletes the client
Disconnect ==
    /\ srv.pc = "running"
    /\ \E c \in srv.clients :
          srv' = [srv EXCEPT !.clients = @ \ {c}, !.joined[c] = 0, !.yielded[c] = {}]
    /\ UNCHANGED <<btVars, trail, tplus, adv, sync, pub, rev, appVars>>

NextSrv ==
    \/ CallTool
    \/ CallToolEnd
    \/ Events
    \/ EventStream
    \/ Disconnect

SpecSrv == InitSrv /\ [][NextSrv]_vars

\* positions in emitted of the events of call r, of one type or of any
EventsOf(r) == {k \in 1..Len(srv.emitted) : srv.emitted[k].call = r}

StartsOf(r) == {k \in EventsOf(r) : srv.emitted[k].type = "tool_call_start"}

TerminalsOf(r) ==
    {k \in EventsOf(r) : srv.emitted[k].type \in {"tool_call_complete", "error"}}

NamesRegistered(r) ==
    srv.calls[r].body.json /\ srv.calls[r].body.name \in RegisteredTools

NamesUnknown(r) ==
    srv.calls[r].body.json /\ srv.calls[r].body.name \notin RegisteredTools

\* C18: a call naming a registered tool has, while the tool executes, exactly
\* one tool_call_start event carrying its request id and no terminal event,
\* and once answered exactly one terminal event, emitted after the start:
\* tool_call_complete when the tool returned, error when it raised; a call
\* naming an unknown tool is answered 404 and has no event
C18_CallLifecycle ==
    srv.pc = "running" =>
        \A r \in 1..Len(srv.calls) :
            /\ NamesRegistered(r) =>
                  /\ Cardinality(StartsOf(r)) = 1
                  /\ \A k \in StartsOf(r) :
                        /\ srv.emitted[k].request_id = srv.calls[r].request_id
                        /\ \A j \in TerminalsOf(r) : k < j
                  /\ srv.calls[r].pc = "executing" => TerminalsOf(r) = {}
                  /\ srv.calls[r].pc = "done" =>
                        /\ Cardinality(TerminalsOf(r)) = 1
                        /\ \A j \in TerminalsOf(r) :
                              srv.emitted[j].type =
                                 IF srv.calls[r].outcome = "returned"
                                 THEN "tool_call_complete" ELSE "error"
            /\ NamesUnknown(r) =>
                  /\ srv.calls[r].pc = "done"
                  /\ srv.calls[r].status = 404
                  /\ EventsOf(r) = {}

\* a call of a registered tool was answered after the tool raised: a
\* tool_call_start carrying the client's id, then one error event
C18_Witness ==
    /\ srv.pc = "running"
    /\ \E r \in 1..Len(srv.calls) :
          /\ NamesRegistered(r)
          /\ srv.calls[r].body.id # None
          /\ srv.calls[r].pc = "done"
          /\ srv.calls[r].outcome = "raised"
          /\ \E k, j \in EventsOf(r) :
                /\ k < j
                /\ srv.emitted[k].type = "tool_call_start"
                /\ srv.emitted[k].request_id = srv.calls[r].body.id
                /\ srv.emitted[j].type = "error"

\* C19: an event that has left the shared queue has been yielded to every
\* client that was subscribed when it was emitted and still is
C19_DeliveredToAll ==
    srv.pc = "running" =>
        \A k \in 1..Len(srv.emitted) : \A c \in srv.clients :
            ( /\ k > srv.joined[c]
              /\ ~srv.emitted[k].dropped
              /\ k \notin Range(srv.event_queue) )
            => k \in srv.yielded[c]

\* C20: the shared queue has a capacity, never holds more events than that,
\* and an event emitted while the queue is at capacity is dropped
C20_BoundedQueue ==
    srv.pc = "running" =>
        /\ EventQueue_maxsize > 0
        /\ Len(srv.event_queue) <= EventQueue_maxsize
        /\ \A k \in 1..Len(srv.emitted) :
              srv.emitted[k].dropped => k \notin Range(srv.event_queue)

-----------------------------------------------------------------------------
(* Backtester: cash and the pending queue *)

\* the single immediate signal of the _process_entries call that just ran
\* reached _execute_entry with a free slot, a bar, a symbol not held and at
\* least one share, and its cost with commission is more than the cash
CostlyEntry ==
    /\ pc = "entries"
    /\ pc' = "mark"
    /\ asked'.called
    /\ Len(asked'.signals) = 1
    /\ LET sig == asked'.signals[1]
           st  == Ledger(cfg, cash, positions, trades)
       IN  /\ ~Deferred(sig)
           /\ sig.symbol \in market_data
           /\ ~Holds(positions, sig.symbol)
           /\ EntryShares(cfg, st, sig.symbol, day, "close") > 0
           /\ EntryCost(cfg, st, sig.symbol, day, "close") > cash

\* C26: the portfolio cash is never negative, and an entry whose gross cost
\* plus commission exceeds the cash leaves cash, positions and trade log as
\* they were
C26_CashNeverNegative ==
    /\ [](cash >= 0)
    /\ [][CostlyEntry => /\ cash' = cash
                         /\ positions' = positions
                         /\ trades' = trades]_vars

\* an entry sized with all the cash was refused for its commission: nothing
\* was bought and the cash is the initial capital
C26_Witness ==
    /\ pc = "mark"
    /\ asked.called
    /\ Len(asked.signals) = 1
    /\ ~Deferred(asked.signals[1])
    /\ asked.signals[1].symbol \in market_data
    /\ positions = <<>>
    /\ trades = <<>>
    /\ cash = cfg.initial_capital * MoneyScale
    /\ EntryShares(cfg, Ledger(cfg, cash, positions, trades),
                   asked.signals[1].symbol, day, "close") > 0
    /\ EntryCost(cfg, Ledger(cfg, cash, positions, trades),
                 asked.signals[1].symbol, day, "close") > cash

-----------------------------------------------------------------------------
(* rnotegen MCPClient (mcp/client.py) *)

MaxConnections == 2   \* connections websockets.connect opens in one run
MaxToolCalls == 2     \* calls of MCPClient.call_tool in one run

\* what the server and the transport may do to one connect(): the connection
\* is refused, the initialize request fails to be sent or answered, is answered
\* with an error, the tools/list request fails to be sent or answered, or
\* the handshake completes
ConnectOutcomes ==
    {"refused", "init_send", "init_recv", "init_error", "list_send", "list_recv", "ok"}

\* what may happen to the tools/call exchange: the send or the receive raises,
\* the response carries an error, or it carries a result
CallOutcomes == {"send", "recv", "error", "result"}

\* a request put on the wire of connection conn
Wire(method, conn) == [method |-> method, conn |-> conn]

\* MCPClient._initialize_session followed by _list_tools on a client whose
\* websocket was just assigned; raised tells whether an exception leaves it
MCPClient_initialize_session(m, outcome) ==
    LET init == Wire("initialize", m.websocket)
        list == Wire("tools/list", m.websocket)
        done == [m EXCEPT !.initialized = @ \cup {m.websocket}]
    IN  CASE outcome = "init_send" ->
               [m EXCEPT !.request_id = @ + 1, !.raised = TRUE]
          [] outcome \in {"init_recv", "init_error"} ->
               [m EXCEPT !.request_id = @ + 1, !.sent = Append(@, init),
                         !.raised = TRUE]
          [] outcome = "list_send" ->
               [done EXCEPT !.request_id = @ + 2, !.sent = Append(@, init),
                            !.raised = TRUE]
          [] outcome = "list_recv" ->
               [done EXCEPT !.request_id = @ + 2,
                            !.sent = Append(Append(@, init), list),
                            !.raised = TRUE]
          [] outcome = "ok" ->
               [done EXCEPT !.request_id = @ + 2,
                            !.sent = Append(Append(@, init), list),
                            !.raised = FALSE]

\* MCPClient.connect: the except clause logs and raises again, and leaves
\* self.websocket as the try block set it
MCPClient_connect(m, outcome) ==
    IF outcome = "refused" THEN [m EXCEPT !.raised = TRUE]
    ELSE MCPClient_initialize_session(
             [m EXCEPT !.websocket = m.opened + 1, !.opened = @ + 1], outcome)

\* the try block of MCPClient.call_tool, lines 110-122
MCPClient_call_exchange(m, outcome) ==
    LET call == Wire("tools/call", m.websocket)
    IN  CASE outcome = "send" ->
               [m EXCEPT !.request_id = @ + 1, !.returned = "error"]
          [] outcome \in {"recv", "error"} ->
               [m EXCEPT !.request_id = @ + 1, !.sent = Append(@, call),
                         !.returned = "error"]
          [] outcome = "result" ->
               [m EXCEPT !.request_id = @ + 1, !.sent = Append(@, call),
                         !.returned = "result"]

\* MCPClient.call_tool: connect() is awaited before the try block, so what it
\* raises leaves call_tool as an exception
MCPClient_call_tool(m, connecting, outcome) ==
    LET c == IF m.websocket = None THEN MCPClient_connect(m, connecting)
             ELSE [m EXCEPT !.raised = FALSE]
    IN  IF c.raised THEN [c EXCEPT !.returned = "raised"]
        ELSE MCPClient_call_exchange(c, outcome)

\* MCPClient.__init__
InitMcp ==
    /\ IdleBacktester
    /\ trail = IdleTrail
    /\ tplus = IdleTPlus
    /\ adv = IdleAdv
    /\ IdleRnotegen
    /\ wr = IdleWr
    /\ mdh = IdleMdh
    /\ qs = IdleQs
    /\ mcp = [pc |-> "ready", websocket |-> None, opened |-> 0, initialized |-> {},
              request_id |-> 0, sent |-> <<>>, calls |-> 0, raised |-> FALSE,
              returned |-> "none"]

\* await client.connect()
McpConnect ==
    /\ mcp.pc = "ready"
    /\ mcp.opened < MaxConnections
    /\ \E o \in ConnectOutcomes :
          mcp' = [MCPClient_connect(mcp, o) EXCEPT !.returned = "none"]
    /\ UNCHANGED <<btVars, trail, tplus, adv, rnVars, wr, mdh, qs>>

\* await client.call_tool(tool_name, arguments)
McpCallTool ==
    /\ mcp.pc = "ready"
    /\ mcp.calls < MaxToolCalls
    /\ mcp.websocket = None => mcp.opened < MaxConnections
    /\ \E c \in ConnectOutcomes, o \in CallOutcomes :
          mcp' = [MCPClient_call_tool(mcp, c, o) EXCEPT !.calls = @ + 1]
    /\ UNCHANGED <<btVars, trail, tplus, adv, rnVars, wr, mdh, qs>>

\* await client.close()
McpClose ==
    /\ mcp.pc = "ready"
    /\ mcp.websocket # None
    /\ mcp' = [mcp EXCEPT !.websocket = None, !.returned = "none", !.raised = FALSE]
    /\ UNCHANGED <<btVars, trail, tplus, adv, rnVars, wr, mdh, qs>>

NextMcp ==
    \/ McpConnect
    \/ McpCallTool
    \/ McpClose

SpecMcp == InitMcp /\ [][NextMcp]_vars

\* C21: whatever fails while connecting, sending or receiving, a call of
\* call_tool ends by returning the tools/call result or a mapping with an
\* error key
C21_AlwaysReturnsMapping ==
    mcp.pc = "ready" => mcp.returned \in {"none", "result", "error"}

\* C28: every tools/call request on the wire went out on a connection whose
\* initialize request had been answered without an error
C28_CallOnlyAfterInitialize ==
    mcp.pc = "ready" =>
        \A i \in 1..Len(mcp.sent) :
            mcp.sent[i].method = "tools/call" => mcp.sent[i].conn \in mcp.initialized

-----------------------------------------------------------------------------
(* rnotegen WriterAgent.generate (core/writer_agent.py, core/base_agent.py) *)

max_rounds == 12      \* writer_agent.py line 96

\* required_keys of the call at line 122
RequiredKeys == {"title", "content", "summary"}

\* tools.TOOL_FUNCTIONS
TOOL_FUNCTIONS == {"analyze_materials", "deep_research"}

\* the function names of msg.tool_calls when the model asks for tools: one
\* registered tool and one that is not in TOOL_FUNCTIONS
ToolCalls == <<"deep_research", "summarize">>

\* msg.content of a response without tool calls: nothing, prose, or a JSON
\* object with some keys
Texts ==
    {[kind |-> "empty", keys |-> {}], [kind |-> "prose", keys |-> {}]}
    \cup {[kind |-> "object", keys |-> K] :
             K \in {{}, {"hashtags"}, {"summary"}, {"title", "content"},
                    {"title", "content", "hashtags", "summary"}}}

\* extract_json that asks for every required key
BaseOpenAIAgent_extract_json_AllKeys(text, required_keys) ==
    IF text.kind = "object" /\ required_keys \subseteq text.keys
    THEN [found |-> TRUE, keys |-> text.keys]
    ELSE [found |-> FALSE, keys |-> {}]

\* BaseOpenAIAgent.extract_json: the parsed dict when it shares a key with
\* required_keys, otherwise None
BaseOpenAIAgent_extract_json(text, required_keys) ==
    IF text.kind = "object" /\ (required_keys \cap text.keys) # {}
    THEN [found |-> TRUE, keys |-> text.keys]
    ELSE [found |-> FALSE, keys |-> {}]

\* one entry of self._messages as BaseOpenAIAgent.append builds it; an
\* assistant entry would carry its tool_calls
Message(role, content, tool_call_id, name) ==
    [role |-> role, content |-> content, tool_call_id |-> tool_call_id,
     name |-> name, tool_calls |-> {}]

\* the for loop of lines 104-119: one tool message per tool call, the id
\* of the k-th call being first_id + k - 1
ToolMessages(first_id) ==
    [k \in 1..Len(ToolCalls) |->
        Message("tool",
                IF ToolCalls[k] \in TOOL_FUNCTIONS THEN "result" ELSE "error",
                first_id + k - 1, ToolCalls[k])]

\* lines 129-149: the GeneratedContent built from article_json, or from the
\* placeholder when article_json is None
GeneratedContent(found, keys) ==
    IF ~found THEN [title |-> "theme", content |-> ""]
    ELSE [title   |-> IF "title" \in keys THEN "json title" ELSE "theme",
          content |-> IF "content" \in keys THEN "json content" ELSE ""]

\* the state after round round_i when the loop went on without an article
NextRound(w, msgs) ==
    IF w.round_i + 1 < max_rounds
    THEN [w EXCEPT !.round_i = @ + 1, !.messages = msgs]
    ELSE [w EXCEPT !.round_i = @ + 1, !.messages = msgs, !.pc = "returned",
                   !.generated = GeneratedContent(FALSE, {})]

\* WriterAgent.generate, lines 91-97: the conversation is the system prompt
\* and the article request
InitWr ==
    /\ IdleBacktester
    /\ trail = IdleTrail
    /\ tplus = IdleTPlus
    /\ adv = IdleAdv
    /\ IdleRnotegen
    /\ mcp = IdleMcp
    /\ mdh = IdleMdh
    /\ qs = IdleQs
    /\ wr = [pc |-> "loop", round_i |-> 0, chats |-> 0,
             messages |-> <<Message("system", "system_prompt", None, "none"),
                            Message("user", "article request", None, "none")>>,
             sent |-> <<>>, next_id |-> 1,
             seen |-> [any |-> FALSE, all |-> FALSE, first |-> {}],
             generated |-> [title |-> "none", content |-> "none"]]

\* one pass of the loop at lines 99-128 where self.chat raises
ChatRaises ==
    /\ wr.pc = "loop"
    /\ wr' = [wr EXCEPT !.pc = "raised", !.chats = @ + 1, !.sent = wr.messages]
    /\ UNCHANGED <<btVars, trail, tplus, adv, rnVars, mcp, mdh, qs>>

\* one pass where the response has tool calls
ToolRound ==
    /\ wr.pc = "loop"
    /\ wr' = [NextRound(wr, wr.messages \o ToolMessages(wr.next_id))
                EXCEPT !.chats = @ + 1, !.sent = wr.messages,
                       !.next_id = @ + Len(ToolCalls)]
    /\ UNCHANGED <<btVars, trail, tplus, adv, rnVars, mcp, mdh, qs>>

\* one pass where the response has no tool calls
TextRound ==
    /\ wr.pc = "loop"
    /\ \E text \in Texts :
          LET maybe_json == BaseOpenAIAgent_extract_json(text, RequiredKeys)
              some == text.kind = "object" /\ (RequiredKeys \cap text.keys) # {}
              seen == [any   |-> wr.seen.any \/ some,
                       all   |-> wr.seen.all \/ (text.kind = "object"
                                                  /\ RequiredKeys \subseteq text.keys),
                       first |-> IF ~wr.seen.any /\ some THEN text.keys
                                 ELSE wr.seen.first]
              reminder == Message("user", "reminder", None, "none")
          IN  wr' = [(IF maybe_json.found
                      THEN [wr EXCEPT !.pc = "returned",
                                      !.generated = GeneratedContent(TRUE, maybe_json.keys)]
                      ELSE NextRound(wr, Append(wr.messages, reminder)))
                        EXCEPT !.chats = @ + 1, !.sent = wr.messages, !.seen = seen]
    /\ UNCHANGED <<btVars, trail, tplus, adv, rnVars, mcp, mdh, qs>>

NextWr ==
    \/ ChatRaises
    \/ ToolRound
    \/ TextRound

SpecWr == InitWr /\ [][NextWr]_vars

Placeholder == [title |-> "theme", content |-> ""]

C29_ToolAfterAssistant ==
    wr.pc # "idle" =>
        \A i \in 1..Len(wr.sent) :
            wr.sent[i].role = "tool" =>
                \E j \in 1..(i - 1) :
                    /\ wr.sent[j].role = "assistant"
                    /\ wr.sent[i].tool_call_id \in wr.sent[j].tool_calls

-----------------------------------------------------------------------------
(* quant MarketDataHandler.get_stock_data (util/market_data_handler.py) *)

MaxFetches == 3       \* calls of get_stock_data in one run

\* Strings are sequences of characters. The stock codes and the dates the
\* callers pass are digit strings; "9" starts no known exchange.
StockCodes == {<<"6">>, <<"6", "1">>, <<"9">>}
StartDates == {<<"1">>, <<"1", "2">>, <<"2">>}
EndDates == {<<"3">>, <<"4">>}

\* os.environ restricted to the proxy variables; Unset when the name is absent
Unset == "<unset>"
ProxyNames == {"HTTP_PROXY", "HTTPS_PROXY", "http_proxy", "https_proxy"}
ProxyValues == {Unset, "", "http://proxy:8080"}

\* cache key made of the three strings one after the other
cache_key_NoSeparator(symbol, start_date, end_date) ==
    symbol \o start_date \o end_date

\* line 130: f"{symbol}_{start_date}_{end_date}"
cache_key(symbol, start_date, end_date) ==
    symbol \o <<"_">> \o start_date \o <<"_">> \o end_date

\* os.environ.get(name, '')
EnvironGet(env, name) == IF env[name] = Unset THEN "" ELSE env[name]

\* lines 140-143: the four variables are set to the empty string
ClearProxies(env) == [n \in ProxyNames |-> ""]

\* the finally block, lines 189-194
RestoreProxies(env, original_http_proxy, original_https_proxy) ==
    [env EXCEPT !["HTTP_PROXY"] = IF original_http_proxy # ""
                                  THEN original_http_proxy ELSE @,
                !["HTTPS_PROXY"] = IF original_https_proxy # ""
                                   THEN original_https_proxy ELSE @]

\* lines 151-156: the exchange is inferred from the first character
KnownExchange(symbol) == symbol[1] \in {"6", "0", "3"}

Cached(h, key) == \E e \in h.historical_data : e.key = key
Lookup(h, key) == (CHOOSE e \in h.historical_data : e.key = key).obj

\* MarketDataHandler.get_stock_data; provider is what ak.stock_zh_a_hist and
\* the cleaning after it do: "frame" or "raises". Every frame built is a new
\* object, numbered in order of creation.
MarketDataHandler_get_stock_data(h, symbol, start_date, end_date, provider) ==
    LET key   == cache_key(symbol, start_date, end_date)
        args  == <<symbol, start_date, end_date>>
        prior == {e \in h.succeeded : e.args = args}
        call  == [args |-> args, prior |-> prior # {},
                  prior_obj |-> IF prior = {} THEN None
                                ELSE (CHOOSE e \in prior : TRUE).obj,
                  env_before |-> h.env]
        restored == RestoreProxies(ClearProxies(h.env),
                                   EnvironGet(h.env, "HTTP_PROXY"),
                                   EnvironGet(h.env, "HTTPS_PROXY"))
    IN  IF Cached(h, key)
        THEN [h EXCEPT !.last = call @@ [returned |-> Lookup(h, key), hit |-> TRUE,
                                         provider_called |-> FALSE]]
        ELSE IF ~KnownExchange(symbol)
        THEN [h EXCEPT !.env = restored,
                       !.last = call @@ [returned |-> None, hit |-> FALSE,
                                         provider_called |-> FALSE]]
        ELSE IF provider = "raises"
        THEN [h EXCEPT !.env = restored,
                       !.last = call @@ [returned |-> None, hit |-> FALSE,
                                         provider_called |-> TRUE]]
        ELSE [h EXCEPT !.env = restored,
                       !.objects = @ + 1,
                       !.historical_data = @ \cup {[key |-> key, obj |-> h.objects + 1]},
                       !.succeeded = @ \cup {[args |-> args, obj |-> h.objects + 1]},
                       !.last = call @@ [returned |-> h.objects + 1, hit |-> FALSE,
                                         provider_called |-> TRUE]]

\* MarketDataHandler.__init__, in a process with any proxy settings
InitMdh ==
    /\ IdleBacktester
    /\ trail = IdleTrail
    /\ tplus = IdleTPlus
    /\ adv = IdleAdv
    /\ IdleRnotegen
    /\ mcp = IdleMcp
    /\ wr = IdleWr
    /\ qs = IdleQs
    /\ \E env \in [ProxyNames -> ProxyValues] :
          mdh = [pc |-> "ready", historical_data |-> {}, env |-> env, objects |-> 0,
                 fetches |-> 0, succeeded |-> {},
                 last |-> [args |-> <<>>, prior |-> FALSE, prior_obj |-> None,
                           env_before |-> env, returned |-> None, hit |-> FALSE,
                           provider_called |-> FALSE]]

\* handler.get_stock_data(symbol, start_date, end_date)
GetStockData ==
    /\ mdh.pc = "ready"
    /\ mdh.fetches < MaxFetches
    /\ \E symbol \in StockCodes, start_date \in StartDates, end_date \in EndDates,
          provider \in {"frame", "raises"} :
          mdh' = [MarketDataHandler_get_stock_data(mdh, symbol, start_date, end_date,
                                                   provider)
                    EXCEPT !.fetches = @ + 1]
    /\ UNCHANGED <<btVars, trail, tplus, adv, rnVars, mcp, wr, qs>>

NextMdh == GetStockData

SpecMdh == InitMdh /\ [][NextMdh]_vars

\* C23: a call returns a cached object exactly when an earlier successful call
\* had the same (symbol, start, end); it then returns the object of that
\* call and the provider is not invoked
C23_CacheByTriple ==
    (mdh.pc = "ready" /\ mdh.fetches > 0) =>
        /\ mdh.last.hit <=> mdh.last.prior
        /\ mdh.last.hit => /\ mdh.last.returned = mdh.last.prior_obj
                           /\ mdh.last.returned # None
                           /\ ~mdh.last.provider_called

\* a second call with the triple of a successful first call was served from
\* the cache, while the cache also holds a triple with the same characters
\* split differently
C23_Witness ==
    /\ mdh.pc = "ready"
    /\ mdh.last.hit
    /\ \E e1, e2 \in mdh.succeeded :
          /\ e1.args # e2.args
          /\ e1.args[1] \o e1.args[2] \o e1.args[3] = e2.args[1] \o e2.args[2] \o e2.args[3]
          /\ mdh.last.args = e1.args
          /\ mdh.last.returned = e1.obj

\* C24: after a call that reached the provider, the four proxy variables hold
\* the values they had before the call
C24_ProxiesRestored ==
    (mdh.pc = "ready" /\ mdh.last.provider_called) => mdh.env = mdh.last.env_before

-----------------------------------------------------------------------------
(* quant QuantSystem.backtest (quant_system.py) *)

QsDays == 3           \* calendar days of the backtest after the warm-up bars
QsSymbols == 6        \* symbols left by filter_stocks_by_kdj

QsCapital == 1000000  \* QuantSystem.__init__: capital=1000000
RatioDen == 5         \* position_ratio 0.2 = 1 / RatioDen
StopNum == 88         \* 1 - stop_loss_pct = StopNum / 100
TargetNum == 13       \* 1 + take_profit_pct = TargetNum / 10
max_hold_days == 30   \* B1Strategy.params['max_hold_days']

\* the close (and low) every symbol has on a trading day
QsCloses == {8, 10, 13}

\* weekday of the first day: a Monday or a Friday
StartWeekdays == {0, 4}

\* the symbols whose last B1 signal is dated today: the first k of the list
SignalSets == {1..k : k \in 0..QsSymbols}

QsHeld(positions_) == {p.symbol : p \in positions_}

\* lines 91-117: why a position is sold at today's close, or "hold"
ExitReason(pos, current_price, d) ==
    IF current_price * 100 <= pos.stop_loss100 THEN "stop_loss"
    ELSE IF current_price * 10 >= pos.target_price10 THEN "take_profit"
    ELSE IF d - pos.entry_date > max_hold_days THEN "timeout"
    ELSE "hold"

RECURSIVE SumShares(_)
SumShares(ps) ==
    IF ps = {} THEN 0
    ELSE LET p == CHOOSE x \in ps : TRUE IN p.shares + SumShares(ps \ {p})

\* lines 151-157: the position size for a signal at price with the stop
\* under the previous low; the risk-based size costs more than the ratio
\* allows whenever the stop is positive, and is negative when the stop is
\* above the price
PositionSize(capital, price, prev_low) ==
    IF price * 100 - prev_low * StopNum < 0 THEN -1
    ELSE capital \div (RatioDen * price)

RECURSIVE EntryScan(_, _, _, _, _, _)
\* the for loop of lines 136-170 over symbols, from index i;
\* acc = [capital, positions]
EntryScan(i, signals, price, prev_low, d, acc) ==
    IF i > QsSymbols THEN acc
    ELSE IF i \in QsHeld(acc.positions) \/ i \notin signals
         \/ PositionSize(acc.capital, price, prev_low) <= 0
    THEN EntryScan(i + 1, signals, price, prev_low, d, acc)
    ELSE LET size == PositionSize(acc.capital, price, prev_low)
         IN  EntryScan(i + 1, signals, price, prev_low, d,
                 [capital   |-> acc.capital - size * price,
                  positions |-> acc.positions \cup
                                   {[symbol |-> i, entry_date |-> d, entry_price |-> price,
                                     stop_loss100 |-> prev_low * StopNum,
                                     target_price10 |-> price * TargetNum,
                                     shares |-> size]}])

\* lines 134-170: the space test is made once, before the loop
QuantSystem_entries(q, signals, price, d, kept, cash_) ==
    IF Cardinality(kept) < 5
    THEN EntryScan(1, signals, price, q.prev_low, d, [capital |-> cash_, positions |-> kept])
    ELSE [capital |-> cash_, positions |-> kept]

\* one pass of the loop of lines 81-187 on a trading day
QuantSystem_day(q, signals, price) ==
    LET sold  == {p \in q.positions : ExitReason(p, price, q.d) # "hold"}
        kept  == q.positions \ sold
        cash_ == q.capital + price * SumShares(sold)
        r     == QuantSystem_entries(q, signals, price, q.d, kept, cash_)
    IN  [q EXCEPT !.capital = r.capital,
                  !.positions = r.positions,
                  !.prev_low = price,
                  !.sells = @ + Cardinality(sold),
                  !.buys = @ + Cardinality(r.positions \ kept),
                  !.portfolio_history =
                      Append(@, [date |-> q.d, cash |-> r.capital,
                                 position_value |-> price * SumShares(r.positions),
                                 positions |-> Cardinality(r.positions)]),
                  !.d = @ + 1,
                  !.pc = IF q.d + 1 < QsDays THEN "day" ELSE "close_out"]

Weekday(q) == (q.start_weekday + q.d) % 7

\* backtest up to the loop, the warm-up bars behind it: nothing is held
InitQs ==
    /\ IdleBacktester
    /\ trail = IdleTrail
    /\ tplus = IdleTPlus
    /\ adv = IdleAdv
    /\ IdleRnotegen
    /\ mcp = IdleMcp
    /\ wr = IdleWr
    /\ mdh = IdleMdh
    /\ \E w \in StartWeekdays, low \in QsCloses :
          qs = [pc |-> "day", start_weekday |-> w, d |-> 0, capital |-> QsCapital,
                positions |-> {}, prev_low |-> low, buys |-> 0, sells |-> 0,
                portfolio_history |-> <<>>]

\* lines 83-84: a Saturday or a Sunday is skipped
SkipWeekend ==
    /\ qs.pc = "day"
    /\ Weekday(qs) >= 5
    /\ qs' = [qs EXCEPT !.d = @ + 1,
                        !.pc = IF qs.d + 1 < QsDays THEN "day" ELSE "close_out"]
    /\ UNCHANGED <<btVars, trail, tplus, adv, rnVars, mcp, wr, mdh>>

\* a trading day: exits, entries and the portfolio record
TradingDay ==
    /\ qs.pc = "day"
    /\ Weekday(qs) < 5
    /\ \E signals \in SignalSets, price \in QsCloses :
          qs' = QuantSystem_day(qs, signals, price)
    /\ UNCHANGED <<btVars, trail, tplus, adv, rnVars, mcp, wr, mdh>>

\* lines 189-197: every position left is sold at the close of end_date
CloseOut ==
    /\ qs.pc = "close_out"
    /\ \E price \in QsCloses :
          qs' = [qs EXCEPT !.capital = @ + price * SumShares(qs.positions),
                          !.sells = @ + Cardinality(qs.positions),
                          !.pc = "done"]
    /\ UNCHANGED <<btVars, trail, tplus, adv, rnVars, mcp, wr, mdh>>

NextQs ==
    \/ SkipWeekend
    \/ TradingDay
    \/ CloseOut

SpecQs == InitQs /\ [][NextQs]_vars

\* C25: at the end of every day of the backtest at most five positions are open
C25_AtMostFiveOpen ==
    qs.pc # "idle" =>
        \A i \in 1..Len(qs.portfolio_history) : qs.portfolio_history[i].positions <= 5

====
